---- MODULE Spec2Model ----
(***************************************************************************)
(* Verification model of the Wellz terminal dashboard core:                *)
(*   - wellz/core/history.py     HistoryBuffer, NetworkSpeedBuffer,        *)
(*                               SystemHistory._fit_to_width               *)
(*   - wellz/ui/widgets/graph.py BrailleGraph, BlockGraph, AsciiGraph      *)
(*   - wellz/ui/widgets/box.py   create_box_line                           *)
(*   - wellz/ui/layout.py        Layout.combine_rows                       *)
(*   - usage -> colour step functions of themes.py, bar.py and the panels  *)
(*                                                                         *)
(* Python floats are modelled by exact integers / rationals: sample        *)
(* values, min_val and max_val are integers, percentages are counted in    *)
(* tenths of a percent, a transfer rate is a reduced fraction num/den.     *)
(* Strings are sequences of character classes (see the box section).       *)
(*                                                                         *)
(* The variable `unit` names the object a behaviour exercises; every       *)
(* specification below starts in one unit and only that unit's             *)
(* operations are enabled.                                                 *)
(***************************************************************************)
EXTENDS Integers, Sequences, FiniteSets, TLC

VARIABLES
    unit,         \* which object the behaviour exercises
    \* ---- history.py : one NetworkSpeedBuffer (a HistoryBuffer subclass) ----
    maxlen,       \* HistoryBuffer._maxlen
    buffer,       \* HistoryBuffer._buffer, oldest sample first
    appended,     \* every value handed to append() since construction/clear
    last_bytes,   \* NetworkSpeedBuffer._last_bytes (Optional)
    last_time,    \* NetworkSpeedBuffer._last_time  (Optional)
    ret,          \* value returned by the last update() call (Optional)
    \* ---- one call of SystemHistory._fit_to_width --------------------------
    fit_data, fit_width, fit_out,
    \* ---- one call of GraphRenderer.render (graph.py) ----------------------
    g_data,       \* data
    g_width,      \* width in characters
    g_height,     \* height in lines
    g_min, g_max, \* min_val, max_val
    g_color,      \* color ("" when not given)
    g_empty,      \* empty_color ("" when not given)
    g_style,      \* renderer that ran: "braille", "block" or "ascii"
    g_out,        \* result of the call (Optional)
    \* ---- one call of create_box_line (box.py) -----------------------------
    b_content,    \* content
    b_width,      \* width
    b_border,     \* border_color
    b_out,        \* the returned line (Optional)
    \* ---- one call of Layout.combine_rows (layout.py) ----------------------
    l_args,       \* the panel line-lists as they were handed in
    l_rows,       \* the same list objects (combine_rows appends to them)
    l_gap,        \* gap
    l_out,        \* the combined lines (Optional)
    \* ---- one call of a usage -> colour function ---------------------------
    c_percent,    \* percent, in tenths of a percent
    c_theme,      \* theme dictionary
    c_fn,         \* the function that ran
    c_out,        \* the colour it returned (Optional)
    \* ---- one call of ProcessManager.get_tree_processes (manager.py) -------
    t_ppid,       \* snapshot: pid -> parent pid
    t_cpu,        \* snapshot: pid -> cpu_percent
    t_sort_by,    \* sort_by
    t_limit,      \* limit
    t_out,        \* the returned list of [pid, tree_depth] (Optional)
    \* ---- one SystemHistory (history.py) and the loop feeding it ----------
    sh_maxlen,      \* SystemHistory.maxlen
    sh_cpu_total,   \* cpu_total buffer
    sh_cpu_cores,   \* cpu_cores: list of per-core buffers
    sh_core_count,  \* _cpu_core_count (Optional)
    sh_memory,      \* memory_percent buffer
    sh_swap,        \* swap_percent buffer
    sh_net_up,      \* net_upload   : [buffer, last_bytes, last_time]
    sh_net_down,    \* net_download : [buffer, last_bytes, last_time]
    sh_disk_read,   \* disk_io.read_buffer  : [buffer, last_bytes, last_time]
    sh_disk_write,  \* disk_io.write_buffer : [buffer, last_bytes, last_time]
    sh_gpu_usage,   \* gpu_usage buffer
    sh_gpu_memory,  \* gpu_memory buffer
    sh_gpu_temp,    \* gpu_temp buffer
    sh_clock,       \* the last time.time() reading
    sh_fed,         \* every CPU total handed to update_cpu, oldest first
    sh_snapshots,   \* every snapshot collect_data obtained, oldest first
    sh_width,       \* width of the last get_cpu_graph_data call
    sh_graph,       \* its result (Optional)
    \* ---- one ProcessPanel (process_panel.py) ------------------------------
    p_height,          \* height
    p_processes,       \* the process list the application currently holds
    p_selected_index,  \* selected_index
    p_scroll_offset,   \* scroll_offset
    p_search_filter,   \* search_filter
    p_tree_view,       \* tree_view
    p_ops,             \* operations on the panel since the last render
    p_out,             \* what the last render emitted (Optional); None
                       \* once the panel or the process list changed again
    \* ---- one Layout and its terminal-size query (layout.py) --------------
    z_size,         \* what os.get_terminal_size() gave; None when it raised
    z_term_width,   \* term_width
    z_term_height,  \* term_height
    z_panel_width,  \* panel_width
    z_resized,      \* update_size has run again since the construction
    \* ---- WellzApp.run (app.py), with the Layout above as self.layout ------
    a_pc,           \* where run() is
    a_tty,          \* sys.stdin.isatty()
    a_running,      \* self.running
    a_raw,          \* the terminal is in raw mode
    a_old_settings, \* InputHandler.old_settings is not None
    a_cursor,       \* "hidden" or "shown": the last cursor sequence written
    a_reset,        \* the RESET sequence was written after the last frame
    a_collects,     \* collect_data calls so far
    a_frames,       \* frames written so far
    a_action,       \* the Action being handled ("NONE" outside handle_action)
    a_quit,         \* a QUIT action or a KeyboardInterrupt was handled in run
    a_panels,       \* the configuration the current panel objects were built with
    a_graph_width,  \* render's local graph_width
    a_frame,        \* the panels rendered into the current frame so far
    \* ---- WellzApp.refresh_rate (app.py), in tenths of a second ------------
    r_refresh_rate, \* self.refresh_rate
    r_before,       \* its value before the last adjust_refresh_rate call
    r_delta,        \* the delta of that call (0 before the first call)
    r_count,        \* adjust_refresh_rate calls so far
    \* ---- WellzApp: the UI state handle_action and _handle_resize change ---
    u_panel,          \* self.process_panel (a ProcessPanel object)
    u_show_help,      \* self.show_help
    u_help_visible,   \* self.help_panel.visible
    u_theme_index,    \* self.theme_index
    u_counter,        \* self.process_update_counter
    u_snapshot,       \* the processes of the machine, as psutil lists them
    u_processes,      \* run's local `processes`
    u_kill,           \* the os.kill call of the last KILL_PROCESS (Optional)
    u_events,         \* actions and resizes handled since the last frame
    u_frame,          \* the last frame render() produced (Optional)
    \* ---- one WellzApp.render of the CPU panel (app.py, cpu_panel.py) ------
    k_width,      \* Layout.panel_width, the CPUPanel's width
    k_usage,      \* cpu_data["usage"], in tenths of a percent
    k_buffer,     \* SystemHistory.cpu_total's samples, oldest first
    k_out,        \* what the render produced (Optional)
    \* ---- one graph call on two caller-owned lists (graph.py) --------------
    d_data1,      \* the caller's first list object, as it is now
    d_data2,      \* the caller's second list object, as it is now
    d_args,       \* the contents of the two lists when they were handed in
    d_width,      \* width in characters
    d_height,     \* height in lines
    d_call,       \* the method that ran: "render_dual" or "render"
    d_out         \* the lines it returned (Optional)

histVars == <<maxlen, buffer, appended, last_bytes, last_time, ret>>
fitVars  == <<fit_data, fit_width, fit_out>>

graphVars == <<g_data, g_width, g_height, g_min, g_max, g_color, g_empty,
               g_style, g_out>>

boxVars    == <<b_content, b_width, b_border, b_out>>
layoutVars == <<l_args, l_rows, l_gap, l_out>>
colorVars  == <<c_percent, c_theme, c_fn, c_out>>
treeVars   == <<t_ppid, t_cpu, t_sort_by, t_limit, t_out>>

sysCpuVars  == <<sh_cpu_total, sh_cpu_cores, sh_core_count, sh_fed>>
sysFlowVars == <<sh_net_up, sh_net_down, sh_disk_read, sh_disk_write, sh_clock>>
sysRestVars == <<sh_memory, sh_swap, sh_gpu_usage, sh_gpu_memory, sh_gpu_temp,
                 sh_snapshots>>
sysCallVars == <<sh_width, sh_graph>>
sysVars     == <<sh_maxlen, sysCpuVars, sysFlowVars, sysRestVars, sysCallVars>>

sizeVars == <<z_size, z_term_width, z_term_height, z_panel_width, z_resized>>

appVars == <<a_pc, a_tty, a_running, a_raw, a_old_settings, a_cursor, a_reset,
             a_collects, a_frames, a_action, a_quit, a_panels, a_graph_width,
             a_frame>>

panelVars == <<p_height, p_processes, p_selected_index, p_scroll_offset,
               p_search_filter, p_tree_view, p_ops, p_out>>

rateVars == <<r_refresh_rate, r_before, r_delta, r_count>>

uiVars == <<u_panel, u_show_help, u_help_visible, u_theme_index,
            u_counter, u_snapshot, u_processes, u_kill,
            u_events, u_frame>>

cpuPanelVars == <<k_width, k_usage, k_buffer, k_out>>

dualVars == <<d_data1, d_data2, d_args, d_width, d_height, d_call, d_out>>

vars == <<unit, histVars, fitVars, graphVars, boxVars, layoutVars, colorVars, treeVars, sysVars, panelVars, sizeVars, appVars, rateVars, uiVars, cpuPanelVars, dualVars>>

\* everything outside one unit
exceptHistory == <<unit, fitVars, graphVars, boxVars, layoutVars, colorVars, treeVars, sysVars, panelVars, sizeVars, appVars, rateVars, uiVars, cpuPanelVars, dualVars>>
exceptFit     == <<unit, histVars, graphVars, boxVars, layoutVars, colorVars, treeVars, sysVars, panelVars, sizeVars, appVars, rateVars, uiVars, cpuPanelVars, dualVars>>
exceptGraph   == <<unit, histVars, fitVars, boxVars, layoutVars, colorVars, treeVars, sysVars, panelVars, sizeVars, appVars, rateVars, uiVars, cpuPanelVars, dualVars>>
exceptBox     == <<unit, histVars, fitVars, graphVars, layoutVars, colorVars, treeVars, sysVars, panelVars, sizeVars, appVars, rateVars, uiVars, cpuPanelVars, dualVars>>
exceptLayout  == <<unit, histVars, fitVars, graphVars, boxVars, colorVars, treeVars, sysVars, panelVars, sizeVars, appVars, rateVars, uiVars, cpuPanelVars, dualVars>>
exceptColor   == <<unit, histVars, fitVars, graphVars, boxVars, layoutVars, treeVars, sysVars, panelVars, sizeVars, appVars, rateVars, uiVars, cpuPanelVars, dualVars>>
exceptTree    == <<unit, histVars, fitVars, graphVars, boxVars, layoutVars, colorVars, sysVars, panelVars, sizeVars, appVars, rateVars, uiVars, cpuPanelVars, dualVars>>
exceptSysHist == <<unit, histVars, fitVars, graphVars, boxVars, layoutVars, colorVars, treeVars, panelVars, sizeVars, appVars, rateVars, uiVars, cpuPanelVars, dualVars>>
exceptPanel   == <<unit, histVars, fitVars, graphVars, boxVars, layoutVars, colorVars, treeVars, sysVars, sizeVars, appVars, rateVars, uiVars, cpuPanelVars, dualVars>>
exceptSize    == <<unit, histVars, fitVars, graphVars, boxVars, layoutVars, colorVars, treeVars, sysVars, panelVars, appVars, rateVars, uiVars, cpuPanelVars, dualVars>>
exceptApp     == <<unit, histVars, fitVars, graphVars, boxVars, layoutVars, colorVars, treeVars, sysVars, panelVars, rateVars, uiVars, cpuPanelVars, dualVars>>
exceptRate == <<unit, histVars, fitVars, graphVars, boxVars, layoutVars, colorVars, treeVars, sysVars, panelVars, sizeVars, appVars, uiVars, cpuPanelVars, dualVars>>
exceptUi == <<unit, histVars, fitVars, graphVars, boxVars, layoutVars, colorVars, treeVars, sysVars, panelVars, sizeVars, appVars, rateVars, cpuPanelVars, dualVars>>
exceptCpuPanel == <<unit, histVars, fitVars, graphVars, boxVars, layoutVars, colorVars, treeVars, sysVars, panelVars, sizeVars, appVars, rateVars, uiVars, dualVars>>
exceptDual == <<unit, histVars, fitVars, graphVars, boxVars, layoutVars, colorVars, treeVars, sysVars, panelVars, sizeVars, appVars, rateVars, uiVars, cpuPanelVars>>

\* Python Optional[T]: None is the empty tuple, a present value v is <<v>>
None    == <<>>
Some(v) == <<v>>
Val(o)  == o[1]

\* ---------------------------------------------- units at rest
\* the state of a unit a behaviour does not exercise
HistoryIdle ==
    /\ maxlen = 1 /\ buffer = <<>> /\ appended = <<>>
    /\ last_bytes = None /\ last_time = None /\ ret = None

FitIdle == fit_data = <<>> /\ fit_width = 0 /\ fit_out = None

GraphIdle ==
    /\ g_data = <<>> /\ g_width = 1 /\ g_height = 1 /\ g_min = 0 /\ g_max = 0
    /\ g_color = "" /\ g_empty = "" /\ g_style = "" /\ g_out = None

BoxIdle == b_content = <<>> /\ b_width = 0 /\ b_border = <<>> /\ b_out = None

LayoutIdle == l_args = <<>> /\ l_rows = <<>> /\ l_gap = 0 /\ l_out = None

ColorIdle == c_percent = 0 /\ c_theme = {} /\ c_fn = "" /\ c_out = None

TreeIdle ==
    /\ t_ppid = <<>> /\ t_cpu = <<>> /\ t_sort_by = "" /\ t_limit = 0
    /\ t_out = None

\* a NetworkSpeedBuffer that has not been updated
NewSpeedBuffer == [buffer |-> <<>>, last_bytes |-> None, last_time |-> None]

\* SystemHistory.__init__ : every buffer empty
SystemHistoryNew ==
    /\ sh_cpu_total = <<>> /\ sh_cpu_cores = <<>> /\ sh_core_count = None
    /\ sh_memory = <<>> /\ sh_swap = <<>>
    /\ sh_net_up = NewSpeedBuffer /\ sh_net_down = NewSpeedBuffer
    /\ sh_disk_read = NewSpeedBuffer /\ sh_disk_write = NewSpeedBuffer
    /\ sh_gpu_usage = <<>> /\ sh_gpu_memory = <<>> /\ sh_gpu_temp = <<>>
    /\ sh_clock = 0 /\ sh_fed = <<>> /\ sh_snapshots = <<>>
    /\ sh_width = 0 /\ sh_graph = None

SysHistIdle == sh_maxlen = 1 /\ SystemHistoryNew

\* ProcessPanel.__init__ : selection, scroll and display options
ProcessPanelNew ==
    /\ p_selected_index = 0 /\ p_scroll_offset = 0
    /\ p_search_filter = <<>> /\ p_tree_view = FALSE
    /\ p_ops = 0 /\ p_out = None

PanelIdle == p_height = 15 /\ p_processes = <<>> /\ ProcessPanelNew

\* a Layout whose size query failed: the fallback 100 x 40
SizeIdle ==
    /\ z_size = None /\ z_term_width = 100 /\ z_term_height = 40
    /\ z_panel_width = 42 /\ z_resized = FALSE

\* _init_panels: the configuration the panels are built with
InitPanels(term_width, term_height, panel_width) ==
    [width          |-> panel_width,
     graph_height   |-> IF term_height >= 50 THEN 6
                        ELSE IF term_height >= 40 THEN 5 ELSE 4,
     process_width  |-> IF panel_width * 2 + 4 <= term_width - 4
                        THEN panel_width * 2 + 4 ELSE term_width - 4,
     process_height |-> IF term_height - 35 >= 10 THEN term_height - 35 ELSE 10]

\* WellzApp.__init__ : run() not started
AppNew ==
    /\ a_pc = "start" /\ a_running = FALSE
    /\ a_raw = FALSE /\ a_old_settings = FALSE
    /\ a_cursor = "shown" /\ a_reset = FALSE
    /\ a_collects = 0 /\ a_frames = 0
    /\ a_action = "NONE" /\ a_quit = FALSE
    /\ a_graph_width = 0 /\ a_frame = <<>>

AppIdle == a_tty = FALSE /\ a_panels = InitPanels(100, 40, 42) /\ AppNew

\* WellzApp with the default refresh rate of 1.0 s, never adjusted
RateIdle == r_refresh_rate = 10 /\ r_before = 10 /\ r_delta = 0 /\ r_count = 0

\* ProcessPanel.__init__(width, height); the theme is set right after
ProcessPanel(height) ==
    [height |-> height, theme |-> 0,
     selected_index |-> 0, scroll_offset |-> 0,
     sort_by |-> "cpu", sort_descending |-> TRUE,
     tree_view |-> FALSE, search_filter |-> <<>>]

\* WellzApp.__init__ on a machine without processes, run() not started
UiNew ==
    /\ u_panel = ProcessPanel(10)
    /\ u_show_help = FALSE /\ u_help_visible = FALSE
    /\ u_theme_index = 0 /\ u_counter = 0
    /\ u_processes = <<>> /\ u_kill = None
    /\ u_events = <<>> /\ u_frame = None

UiIdle == u_snapshot = <<>> /\ UiNew

CpuPanelIdle == k_width = 0 /\ k_usage = 0 /\ k_buffer = <<>> /\ k_out = <<>>

DualIdle ==
    /\ d_data1 = <<>> /\ d_data2 = <<>> /\ d_args = <<>>
    /\ d_width = 0 /\ d_height = 0 /\ d_call = "" /\ d_out = <<>>

\* ------------------------------------------------------------------ bounds
MaxCap     == 3     \* largest HistoryBuffer capacity explored
MaxAppends == 4     \* append()/update() calls per behaviour
MaxTime    == 2     \* time.time() readings range over 0..MaxTime
MaxFitLen  == 3     \* longest sample list handed to _fit_to_width
MaxFitW    == 4     \* largest width handed to _fit_to_width

Totals  == {200, 1000, 1500}       \* cumulative byte counters fed to update
FitSamples == {0, 1, 2}            \* sample values handed to _fit_to_width

MaxGraphLen == 3    \* longest sample list handed to a graph renderer
MaxGraphW   == 2    \* largest graph width in characters
MaxGraphH   == 2    \* largest graph height in lines
GraphSamples == {-4, 0, 3, 8}      \* sample values handed to a renderer
GraphLimits  == {-4, 0, 8}         \* min_val / max_val handed to a renderer

MaxContent == 4     \* longest content (in characters) handed to create_box_line
MaxBoxW    == 7     \* largest box width handed to create_box_line
MaxPanelH  == 3     \* tallest panel handed to combine_rows
MaxGap     == 2     \* largest gap handed to combine_rows

Overshoot  == 20    \* tenths of a percent explored below 0 % and above 100 %

MaxTicks   == 2     \* refresh-loop ticks (collect_data calls) per behaviour

MaxProcs      == 4  \* longest process list handed to ProcessPanel.render
MaxProcHeight == 6  \* tallest ProcessPanel (content rows = height - 4)
MaxOps        == 2  \* panel operations between two renders

Margin        == 2  \* terminal sizes explored around every tier boundary

MaxCollects   == 2  \* refresh-loop iterations (collect_data calls) per behaviour

SmallLimit == 2     \* the truncating limit handed to get_tree_processes

MaxRateSteps == 3   \* adjust_refresh_rate calls per behaviour
RateMargin   == 20  \* configured rates range up to 10.0 s + RateMargin tenths

MaxKeys == 2        \* actions and resizes handled between two frames
TreePids   == {1, 2, 3, 4}         \* pids of the process snapshot
AbsentPid  == 99                   \* a parent pid that is in no snapshot
CpuValues  == {10, 20}             \* cpu_percent readings of the snapshot
SortKeys   == {"cpu", "pid"}       \* sort_by values handed in

\* ------------------------------------------------------------ list helpers
RECURSIVE SeqsUpTo(_, _)
SeqsUpTo(S, n) ==
    IF n = 0 THEN {<<>>}
    ELSE LET shorter == SeqsUpTo(S, n - 1)
         IN  shorter \cup {Append(s, x) : s \in {t \in shorter : Len(t) = n - 1}, x \in S}

\* Python slice s[-n:] for n >= 0: the last n elements, all of s when
\* n >= len(s), and also all of s when n = 0 (s[-0:] is s[0:])
LastSlice(s, n) ==
    IF n = 0 \/ n >= Len(s) THEN s ELSE SubSeq(s, Len(s) - n + 1, Len(s))

\* Python seq[i]: negative indices count from the end, anything outside
\* -len..len-1 raises IndexError
PyIndex(seq, i) ==
    IF i >= 0 /\ i < Len(seq) THEN seq[i + 1]
    ELSE IF i < 0 /\ -i <= Len(seq) THEN seq[Len(seq) + i + 1]
    ELSE "IndexError"

\* Python int(n / d) on exact values: truncation towards zero
TruncDiv(n, d) ==
    IF n = 0 THEN 0
    ELSE IF (n > 0) = (d > 0) THEN (IF n > 0 THEN n ELSE -n) \div (IF d > 0 THEN d ELSE -d)
    ELSE -((IF n > 0 THEN n ELSE -n) \div (IF d > 0 THEN d ELSE -d))

Zeros(n) == [i \in 1..n |-> 0]

Min(a, b) == IF a < b THEN a ELSE b
Max(a, b) == IF a > b THEN a ELSE b

\* ------------------------------------------------------- exact rationals
RECURSIVE GCD(_, _)
GCD(a, b) == IF b = 0 THEN a ELSE GCD(b, a % b)

Abs(a) == IF a < 0 THEN -a ELSE a

\* the float n / d (d > 0) as a reduced fraction
Rat(n, d) == LET g == GCD(Abs(n), d)
             IN  [num |-> n \div g, den |-> d \div g]

RatZero == [num |-> 0, den |-> 1]

\* ============================================================ history.py
\* sample values fed to HistoryBuffer.append directly
Samples == {Rat(0, 1), Rat(1, 1), Rat(2, 1)}

\* a deque that, once full, refuses the new sample instead of evicting
DequeAppend_KeepOldest(buf, n, v) ==
    IF n = 0 THEN <<>>
    ELSE IF Len(buf) < n THEN Append(buf, v)
    ELSE buf

\* collections.deque(maxlen=n).append(v): a full deque drops its leftmost
\* element, a deque of maxlen 0 stays empty.
DequeAppend(buf, n, v) ==
    IF n = 0 THEN <<>>
    ELSE IF Len(buf) < n THEN Append(buf, v)
    ELSE Append(Tail(buf), v)

\* HistoryBuffer.get_data
get_data(buf) == buf

\* HistoryBuffer.append(value)
HistoryAppend(v) ==
    /\ unit = "history"
    /\ Len(appended) < MaxAppends
    /\ buffer' = DequeAppend(buffer, maxlen, v)
    /\ appended' = Append(appended, v)
    /\ UNCHANGED <<maxlen, last_bytes, last_time, ret, exceptHistory>>

\* HistoryBuffer.clear()
HistoryClear ==
    /\ unit = "history"
    /\ appended # <<>>
    /\ buffer' = <<>>
    /\ appended' = <<>>
    /\ UNCHANGED <<maxlen, last_bytes, last_time, ret, exceptHistory>>

\* the speed without the division by the elapsed time
UpdateSpeed_NoElapsed(total_bytes, current_time, lb, lt) ==
    IF lb # None /\ lt # None
    THEN LET time_delta == current_time - Val(lt)
         IN  IF time_delta > 0
             THEN Rat(total_bytes - Val(lb), 1)
             ELSE RatZero
    ELSE RatZero

\* the speed computed by NetworkSpeedBuffer.update (history.py:84-90)
UpdateSpeed(total_bytes, current_time, lb, lt) ==
    IF lb # None /\ lt # None
    THEN LET time_delta == current_time - Val(lt)
         IN  IF time_delta > 0
             THEN Rat(total_bytes - Val(lb), time_delta)
             ELSE RatZero
    ELSE RatZero

\* NetworkSpeedBuffer.update(total_bytes) with time.time() = current_time
NetworkUpdate(total_bytes, current_time) ==
    /\ unit = "history"
    /\ Len(appended) < MaxAppends
    /\ LET speed == UpdateSpeed(total_bytes, current_time, last_bytes, last_time)
       IN  /\ last_bytes' = Some(total_bytes)
           /\ last_time' = Some(current_time)
           /\ buffer' = DequeAppend(buffer, maxlen, speed)
           /\ appended' = Append(appended, speed)
           /\ ret' = Some(speed)
    /\ UNCHANGED <<maxlen, exceptHistory>>

\* SystemHistory._fit_to_width (history.py:236-244)
fit_to_width(data, width) ==
    IF Len(data) >= width
    THEN LastSlice(data, width)
    ELSE Zeros(width - Len(data)) \o data

\* one call of _fit_to_width on the drawn arguments
FitCall ==
    /\ unit = "fit"
    /\ fit_out = None
    /\ fit_out' = Some(fit_to_width(fit_data, fit_width))
    /\ UNCHANGED <<fit_data, fit_width, exceptFit>>

\* HistoryBuffer.__init__ / NetworkSpeedBuffer.__init__ for a capacity
InitHistory ==
    /\ unit = "history"
    /\ maxlen \in 0..MaxCap
    /\ buffer = <<>> /\ appended = <<>>
    /\ last_bytes = None /\ last_time = None /\ ret = None
    /\ FitIdle /\ GraphIdle /\ BoxIdle /\ LayoutIdle /\ ColorIdle /\ TreeIdle /\ SysHistIdle /\ PanelIdle /\ SizeIdle /\ AppIdle /\ RateIdle /\ UiIdle /\ CpuPanelIdle /\ DualIdle

InitFit ==
    /\ unit = "fit"
    /\ HistoryIdle
    /\ fit_data \in SeqsUpTo(FitSamples, MaxFitLen)
    /\ fit_width \in 0..MaxFitW
    /\ fit_out = None
    /\ GraphIdle /\ BoxIdle /\ LayoutIdle /\ ColorIdle /\ TreeIdle /\ SysHistIdle /\ PanelIdle /\ SizeIdle /\ AppIdle /\ RateIdle /\ UiIdle /\ CpuPanelIdle /\ DualIdle

NextHistory ==
    \/ \E v \in Samples : HistoryAppend(v)
    \/ HistoryClear
    \/ \E t \in Totals, now \in 0..MaxTime : NetworkUpdate(t, now)

NextFit == FitCall

SpecHistory == InitHistory /\ [][NextHistory]_vars
SpecFit     == InitFit /\ [][NextFit]_vars

\* ---------------------------------------------------------------- claims
\* C1: for a HistoryBuffer of capacity N >= 1 the stored length never
\* exceeds N, and get_data() is the last min(M, N) of the M values appended,
\* oldest first (FIFO eviction of exactly the oldest sample).
C1_FifoWindow ==
    (unit = "history" /\ maxlen >= 1) =>
        LET M == Len(appended)
            K == Min(M, maxlen)
        IN  /\ Len(buffer) <= maxlen
            /\ Len(get_data(buffer)) = K
            /\ \A i \in 1..K : get_data(buffer)[i] = appended[M - K + i]

\* an overflow happened on a buffer of capacity >= 2 holding distinct values
C1_Witness ==
    /\ unit = "history" /\ maxlen >= 2
    /\ Len(appended) > maxlen
    /\ appended[1] # appended[Len(appended)]
    /\ buffer[1] # buffer[Len(buffer)]

\* C2: _fit_to_width(samples, W) has length exactly W for every W >= 0; it
\* is the last W samples when len(samples) >= W, else W - len(samples)
\* zeros followed by the samples.
C2_FitExactWidth ==
    (unit = "fit" /\ fit_out # None) =>
        LET out == Val(fit_out)
            n   == Len(fit_data)
        IN  /\ Len(out) = fit_width
            /\ IF n >= fit_width
               THEN \A i \in 1..fit_width : out[i] = fit_data[n - fit_width + i]
               ELSE /\ \A i \in 1..(fit_width - n) : out[i] = 0
                    /\ \A i \in 1..n : out[fit_width - n + i] = fit_data[i]

\* C3: no value returned by update or stored in the rate buffer is ever
\* negative, whatever the sequence of totals (counter resets give 0).
C3_RateNeverNegative ==
    unit = "history" =>
        /\ (ret # None => Val(ret).num >= 0)
        /\ \A i \in 1..Len(buffer) : buffer[i].num >= 0

\* C4: the first update returns 0; a later one with elapsed > 0 returns
\* (new_total - last_total) / elapsed, with elapsed <= 0 it returns 0; every
\* call appends exactly the returned sample and re-seeds the baseline.
C4_UpdateRate ==
    [][\A t \in Totals, now \in 0..MaxTime :
          NetworkUpdate(t, now) =>
            LET r == Val(ret')
            IN  /\ ret' # None
                /\ r.den >= 1
                /\ IF last_bytes = None
                   THEN r.num = 0
                   ELSE IF now - Val(last_time) > 0
                        THEN r.num * (now - Val(last_time)) = (t - Val(last_bytes)) * r.den
                        ELSE r.num = 0
                /\ appended' = Append(appended, r)
                /\ (maxlen >= 1 => /\ buffer'[Len(buffer')] = r
                                   /\ Len(buffer') = Min(Len(buffer) + 1, maxlen))
                /\ last_bytes' = Some(t) /\ last_time' = Some(now)]_vars

\* totals 1000 then 1500 one second apart returned 500
C4_Witness ==
    /\ unit = "history"
    /\ ret = Some([num |-> 500, den |-> 1])
    /\ last_bytes = Some(1500)
    /\ Len(appended) >= 2


\* ============================================================== graph.py
\* A rendered line is a sequence of cells [ch, color]: the glyph and the
\* colour escape wrapped around it ("" when the glyph is emitted bare).
\* Braille glyphs are code points, block glyphs "b1".."b8" stand for
\* U+2581..U+2588.  int(normalized * levels) is computed exactly.
BRAILLE_BASE == 10240
BRAILLE_DOTS == << <<1, 8>>, <<2, 16>>, <<4, 32>>, <<64, 128>> >>
BLOCK_CHARS  == <<" ", "b1", "b2", "b3", "b4", "b5", "b6", "b7", "b8">>
ASCII_CHARS  == <<" ", ".", "_", "-", "=", "+", "#", "@">>

\* `if not data: data = [0]` followed by the fit of data to n columns
FitGraphData(data, n) ==
    LET d == IF data = <<>> THEN <<0>> ELSE data
    IN  IF Len(d) > n THEN LastSlice(d, n)
        ELSE IF Len(d) < n THEN Zeros(n - Len(d)) \o d
        ELSE d

\* value = max(min_val, min(max_val, value))
Clamp(value, min_val, max_val) == Max(min_val, Min(max_val, value))

\* value_range = max_val - min_val if max_val != min_val else 1
ValueRange(min_val, max_val) == IF max_val # min_val THEN max_val - min_val ELSE 1

\* int(((value - min_val) / value_range) * levels) after clamping
FillLevel(value, min_val, max_val, levels) ==
    TruncDiv((Clamp(value, min_val, max_val) - min_val) * levels,
             ValueRange(min_val, max_val))

\* the dot test with range(fill_height + 1)
BrailleDot_Inclusive(fill_height, dots_height, dot_y) ==
    LET y == dots_height - 1 - dot_y
    IN  y >= 0 /\ y <= fill_height /\ y < dots_height

\* dots[dot_y][x] after `for y in range(fill_height): if y < dots_height:
\* dots[dots_height - 1 - y][x] = True`
BrailleDot(fill_height, dots_height, dot_y) ==
    LET y == dots_height - 1 - dot_y
    IN  y >= 0 /\ y < fill_height /\ y < dots_height

\* char_val of the 2x4 block at (row, col), rows and columns from 0
BrailleCharVal(fills, row, col, dots_width, dots_height) ==
    LET Bit(dy, dx) ==
            LET dot_y == row * 4 + dy
                dot_x == col * 2 + dx
            IN  IF dot_x < dots_width /\ dot_y < dots_height
                   /\ BrailleDot(fills[dot_x + 1], dots_height, dot_y)
                THEN BRAILLE_DOTS[dy + 1][dx + 1] ELSE 0
    IN  Bit(0, 0) + Bit(0, 1) + Bit(1, 0) + Bit(1, 1)
        + Bit(2, 0) + Bit(2, 1) + Bit(3, 0) + Bit(3, 1)

BrailleCell(char_val, color, empty_color) ==
    [ch |-> BRAILLE_BASE + char_val,
     color |-> IF char_val > 0 THEN color ELSE empty_color]

\* BrailleGraph.render
BrailleRender(data, width, height, min_val, max_val, color, empty_color) ==
    LET dots_width  == width * 2
        dots_height == height * 4
        d     == FitGraphData(data, dots_width)
        fills == [x \in 1..Len(d) |-> FillLevel(d[x], min_val, max_val, dots_height)]
    IN  [raised |-> "",
         lines  |-> [row \in 1..height |-> [col \in 1..width |->
                       BrailleCell(BrailleCharVal(fills, row - 1, col - 1,
                                                  dots_width, dots_height),
                                   color, empty_color)]]]

\* the block glyph without the full-block branch
BlockChar_NoFullBranch(col_height, row_bottom, row_top) ==
    IF col_height <= row_bottom THEN PyIndex(BLOCK_CHARS, 0)
    ELSE PyIndex(BLOCK_CHARS, col_height - row_bottom)

\* the glyph of one cell of BlockGraph.render
BlockChar(col_height, row_bottom, row_top) ==
    IF col_height >= row_top THEN PyIndex(BLOCK_CHARS, 8)
    ELSE IF col_height <= row_bottom THEN PyIndex(BLOCK_CHARS, 0)
    ELSE PyIndex(BLOCK_CHARS, col_height - row_bottom)

\* the glyph of one cell of AsciiGraph.render
AsciiChar(col_height, row_bottom, row_top) ==
    IF col_height >= row_top THEN PyIndex(ASCII_CHARS, -1)
    ELSE IF col_height <= row_bottom THEN PyIndex(ASCII_CHARS, 0)
    ELSE PyIndex(ASCII_CHARS, Min(col_height - row_bottom, Len(ASCII_CHARS) - 1))

GlyphCell(char, color, empty_color) ==
    [ch |-> char, color |-> IF char # " " THEN color ELSE empty_color]

\* the value of a render call whose cells are `lines`: the call raises as
\* soon as one character lookup raised
RenderResult(lines) ==
    IF \E r \in 1..Len(lines) : \E c \in 1..Len(lines[r]) :
           lines[r][c].ch = "IndexError"
    THEN [raised |-> "IndexError", lines |-> <<>>]
    ELSE [raised |-> "", lines |-> lines]

\* BlockGraph.render
BlockRender(data, width, height, min_val, max_val, color, empty_color) ==
    LET d       == FitGraphData(data, width)
        levels  == height * 8
        columns == [x \in 1..Len(d) |-> FillLevel(d[x], min_val, max_val, levels)]
    IN  RenderResult([row \in 1..height |-> [c \in 1..Len(columns) |->
            LET row_bottom == (height - row) * 8
                row_top    == row_bottom + 8
            IN  GlyphCell(BlockChar(columns[c], row_bottom, row_top),
                          color, empty_color)]])

\* AsciiGraph.render
AsciiRender(data, width, height, min_val, max_val, color, empty_color) ==
    LET d       == FitGraphData(data, width)
        levels_per_char == Len(ASCII_CHARS) - 1
        levels  == height * levels_per_char
        columns == [x \in 1..Len(d) |-> FillLevel(d[x], min_val, max_val, levels)]
    IN  RenderResult([row \in 1..height |-> [c \in 1..Len(columns) |->
            LET row_bottom == (height - row) * levels_per_char
                row_top    == row_bottom + levels_per_char
            IN  GlyphCell(AsciiChar(columns[c], row_bottom, row_top),
                          color, empty_color)]])

\* one call renderer.render(g_data, g_width, g_height, g_min, g_max, ...)
BrailleGraphRender ==
    /\ unit = "graph" /\ g_out = None
    /\ g_style' = "braille"
    /\ g_out' = Some(BrailleRender(g_data, g_width, g_height, g_min, g_max,
                                   g_color, g_empty))
    /\ UNCHANGED <<g_data, g_width, g_height, g_min, g_max, g_color, g_empty,
                   exceptGraph>>

BlockGraphRender ==
    /\ unit = "graph" /\ g_out = None
    /\ g_style' = "block"
    /\ g_out' = Some(BlockRender(g_data, g_width, g_height, g_min, g_max,
                                 g_color, g_empty))
    /\ UNCHANGED <<g_data, g_width, g_height, g_min, g_max, g_color, g_empty,
                   exceptGraph>>

AsciiGraphRender ==
    /\ unit = "graph" /\ g_out = None
    /\ g_style' = "ascii"
    /\ g_out' = Some(AsciiRender(g_data, g_width, g_height, g_min, g_max,
                                 g_color, g_empty))
    /\ UNCHANGED <<g_data, g_width, g_height, g_min, g_max, g_color, g_empty,
                   exceptGraph>>

InitGraph ==
    /\ unit = "graph"
    /\ HistoryIdle /\ FitIdle /\ BoxIdle /\ LayoutIdle /\ ColorIdle /\ TreeIdle /\ SysHistIdle /\ PanelIdle /\ SizeIdle /\ AppIdle /\ RateIdle /\ UiIdle /\ CpuPanelIdle /\ DualIdle
    /\ g_data \in SeqsUpTo(GraphSamples, MaxGraphLen)
    /\ g_width \in 1..MaxGraphW
    /\ g_height \in 1..MaxGraphH
    /\ g_min \in GraphLimits /\ g_max \in GraphLimits
    /\ g_color \in {"", "fill"} /\ g_empty \in {"", "dim"}
    /\ g_style = "" /\ g_out = None

NextGraph == BrailleGraphRender \/ BlockGraphRender \/ AsciiGraphRender

SpecGraph == InitGraph /\ [][NextGraph]_vars

\* the glyph a renderer draws for a cell with nothing in it
EmptyGlyph(style) == IF style = "braille" THEN BRAILLE_BASE ELSE " "

AllCellsEmpty(style, lines) ==
    \A r \in 1..Len(lines) : \A c \in 1..Len(lines[r]) :
        lines[r][c].ch = EmptyGlyph(style)

AllSamplesAre(data, v) == \A i \in 1..Len(data) : data[i] = v

\* C5: each of the three renderers returns, without raising, exactly
\* `height` lines for every input, width >= 1, height >= 1 and min/max pair.
C5_HeightLines ==
    (unit = "graph" /\ g_out # None) =>
        /\ Val(g_out).raised = ""
        /\ Len(Val(g_out).lines) = g_height

\* a two-line render of an input longer than the width with min_val = max_val
C5_Witness ==
    /\ unit = "graph" /\ g_out # None /\ g_style = "block"
    /\ g_height = 2 /\ g_min = g_max /\ Len(g_data) > g_width

\* C6 as stated: an empty input, or one whose samples all equal min_val,
\* renders only empty glyphs in every renderer, whatever min_val/max_val.
C6_EmptyInputEmptyGraph ==
    (unit = "graph" /\ g_out # None /\ AllSamplesAre(g_data, g_min)) =>
        /\ Val(g_out).raised = ""
        /\ AllCellsEmpty(g_style, Val(g_out).lines)

\* C6 amended: the same, provided min_val >= 0 or max_val <= min_val (the
\* zeros used for missing samples then lie at or below min_val).
C6_EmptyInputEmptyGraphNonNegMin ==
    (unit = "graph" /\ g_out # None /\ AllSamplesAre(g_data, g_min)
       /\ (g_min >= 0 \/ g_max <= g_min)) =>
        /\ Val(g_out).raised = ""
        /\ AllCellsEmpty(g_style, Val(g_out).lines)

\* an all-zero input shorter than the braille sub-column count was rendered
\* on a scale 0..8
C6_Witness ==
    /\ unit = "graph" /\ g_out # None /\ g_style = "braille"
    /\ g_data = <<0, 0>> /\ g_width = 2 /\ g_min = 0 /\ g_max = 8


\* ================================================================ box.py
\* A string is a sequence of characters, one representative per class the
\* ANSI regular expression  \x1B(?:[@-Z\\-_]|\[[0-?]*[ -/]*[@-~])  tells
\* apart:
\*   "ESC" \x1B            "["  the CSI introducer (also a final byte)
\*   "9"   a byte of [0-?] " "  a space, a byte of [ -/]
\*   "m"   a final byte of [@-~] outside [@-Z\\-_] (a lower-case letter)
\*   "A"   a byte of [@-Z\\-_] (an upper-case letter), also a final byte
\*   "blk" a visible character outside ASCII (a block or braille glyph),
\*   "bar" the border glyph U+2502
Chars == {"ESC", "[", "9", " ", "m", "A", "blk"}

RESET        == <<"ESC", "[", "9", "m">>          \* "\033[0m"
BRIGHT_BLACK == <<"ESC", "[", "9", "9", "m">>     \* "\033[90m"

Spaces(n) == [i \in 1..n |-> " "]                 \* " " * n (empty for n <= 0)

IsParam(c)  == c = "9"
IsInter(c)  == c = " "
IsFinal(c)  == c \in {"m", "A", "["}
IsSingle(c) == c = "A"

\* first index >= i of s whose character does not satisfy the class
RECURSIVE SkipParams(_, _)
SkipParams(s, i) ==
    IF i <= Len(s) /\ IsParam(s[i]) THEN SkipParams(s, i + 1) ELSE i

RECURSIVE SkipInters(_, _)
SkipInters(s, i) ==
    IF i <= Len(s) /\ IsInter(s[i]) THEN SkipInters(s, i + 1) ELSE i

\* length of the match of the ANSI expression at index i of s, 0 if none
AnsiMatchLen(s, i) ==
    IF i > Len(s) \/ s[i] # "ESC" \/ i + 1 > Len(s) THEN 0
    ELSE IF IsSingle(s[i + 1]) THEN 2
    ELSE IF s[i + 1] = "["
         THEN LET j == SkipInters(s, SkipParams(s, i + 2))
              IN  IF j <= Len(s) /\ IsFinal(s[j]) THEN j - i + 1 ELSE 0
    ELSE 0

\* len(ansi_escape.sub('', text)), scanning from index i
RECURSIVE VisibleFrom(_, _)
VisibleFrom(s, i) ==
    IF i > Len(s) THEN 0
    ELSE LET m == AnsiMatchLen(s, i)
         IN  IF m > 0 THEN VisibleFrom(s, i + m) ELSE 1 + VisibleFrom(s, i + 1)

visible_len(text) == VisibleFrom(text, 1)

\* the padding computed from the raw string length
BoxLinePadding_RawLen(content, width) ==
    LET inner_width == width - 2
        padding     == inner_width - Len(content) - 1
    IN  IF padding < 0 THEN 0 ELSE padding

\* padding computed by create_box_line (box.py:180-185)
BoxLinePadding(content, width) ==
    LET inner_width == width - 2
        padding     == inner_width - visible_len(content) - 1
    IN  IF padding < 0 THEN 0 ELSE padding

\* create_box_line(content, width, border_color)
create_box_line(content, width, border_color) ==
    border_color \o <<"bar">> \o RESET \o <<" ">> \o content
        \o Spaces(BoxLinePadding(content, width))
        \o border_color \o <<"bar">> \o RESET

\* "\x1b[92mOK\x1b[0m", the coloured content of the specification's example
ColouredOK == <<"ESC", "[", "9", "9", "m", "A", "A", "ESC", "[", "9", "m">>

\* one call create_box_line(b_content, b_width, b_border)
CreateBoxLine ==
    /\ unit = "box" /\ b_out = None
    /\ b_out' = Some(create_box_line(b_content, b_width, b_border))
    /\ UNCHANGED <<b_content, b_width, b_border, exceptBox>>

InitBox ==
    /\ unit = "box"
    /\ HistoryIdle /\ FitIdle /\ GraphIdle /\ LayoutIdle /\ ColorIdle /\ TreeIdle /\ SysHistIdle /\ PanelIdle /\ SizeIdle /\ AppIdle /\ RateIdle /\ UiIdle /\ CpuPanelIdle /\ DualIdle
    /\ b_content \in SeqsUpTo(Chars, MaxContent) \cup {ColouredOK}
    /\ b_width \in 3..MaxBoxW
    /\ b_border \in {BRIGHT_BLACK, <<>>}
    /\ b_out = None

NextBox == CreateBoxLine

SpecBox == InitBox /\ [][NextBox]_vars

\* the line create_box_line emits when it adds n padding spaces
BoxLineWith(content, n, border_color) ==
    border_color \o <<"bar">> \o RESET \o <<" ">> \o content \o Spaces(n)
        \o border_color \o <<"bar">> \o RESET

\* number of characters of s that are not part of an escape sequence,
\* counted by marking the sequences from the left
RECURSIVE EscapeChars(_, _)
EscapeChars(s, i) ==
    IF i > Len(s) THEN 0
    ELSE LET m == AnsiMatchLen(s, i)
         IN  IF m > 0 THEN m + EscapeChars(s, i + m) ELSE EscapeChars(s, i + 1)

NonEscapeCount(s) == Len(s) - EscapeChars(s, 1)

\* C7 as stated: padding depends on the visible length only; the line is
\* `width` columns wide whenever the content's visible length is at most the
\* inner width (width - 2); beyond it the padding is 0 and the content is
\* emitted unchanged between the border glyphs.
C7_BoxLineVisibleWidth ==
    (unit = "box" /\ b_out # None) =>
        LET line == Val(b_out)
            vis  == NonEscapeCount(b_content)
        IN  /\ line = BoxLineWith(b_content, Max(0, b_width - 3 - vis), b_border)
            /\ (vis <= b_width - 2 => visible_len(line) = b_width)
            /\ (vis > b_width - 2 => line = BoxLineWith(b_content, 0, b_border))

\* C7 amended: the line is `width` columns wide whenever the content's
\* visible length is at most width - 3 (the inner width less the leading
\* space); beyond that the padding is 0 and the content is emitted unchanged.
C7_BoxLineVisibleWidthMinus3 ==
    (unit = "box" /\ b_out # None) =>
        LET line == Val(b_out)
            vis  == NonEscapeCount(b_content)
        IN  /\ line = BoxLineWith(b_content, Max(0, b_width - 3 - vis), b_border)
            /\ (vis <= b_width - 3 => visible_len(line) = b_width)
            /\ (vis > b_width - 3 => line = BoxLineWith(b_content, 0, b_border))

\* the coloured "OK" (11 characters, 2 visible) was padded in a box of width 7
C7_Witness ==
    /\ unit = "box" /\ b_out # None
    /\ b_content = ColouredOK /\ b_width = 7
    /\ visible_len(Val(b_out)) = 7


\* ============================================================= layout.py
RECURSIVE JoinLines(_, _)
\* sep.join(parts)
JoinLines(sep, parts) ==
    IF parts = <<>> THEN <<>>
    ELSE IF Len(parts) = 1 THEN parts[1]
    ELSE parts[1] \o sep \o JoinLines(sep, Tail(parts))

RECURSIVE MaxLen(_)
\* max(len(r) for r in rows), rows not empty
MaxLen(rows) ==
    IF Len(rows) = 1 THEN Len(rows[1])
    ELSE Max(Len(rows[1]), MaxLen(Tail(rows)))

\* the padding lines sized by the raw length of the first line
PadRow_RawLen(row, max_height) ==
    row \o [i \in 1..(max_height - Len(row)) |-> Spaces(Len(row[1]))]

\* `while len(row) < max_height: row.append(" " * visible_width)` with the
\* visible width of the row's first line (layout.py:99-108)
PadRow(row, max_height) ==
    LET visible_width == visible_len(row[1])
    IN  row \o [i \in 1..(max_height - Len(row)) |-> Spaces(visible_width)]

\* Layout.combine_rows(*rows, gap): the returned lines and the caller's
\* lists afterwards (the padding is appended to the lists handed in)
combine_rows(rows, gap) ==
    LET kept == SelectSeq(rows, LAMBDA r : r # <<>>)
    IN  IF kept = <<>> THEN [combined |-> <<>>, rows |-> rows]
        ELSE LET max_height == MaxLen(kept)
                 padded     == [k \in 1..Len(kept) |-> PadRow(kept[k], max_height)]
                 gap_str    == Spaces(gap)
                 Parts(i)   == LET cols == SelectSeq(padded, LAMBDA col : i <= Len(col))
                               IN  [k \in 1..Len(cols) |-> cols[k][i]]
             IN  [combined |-> [i \in 1..max_height |-> JoinLines(gap_str, Parts(i))],
                  rows     |-> [k \in 1..Len(rows) |->
                                  IF rows[k] = <<>> THEN <<>>
                                  ELSE PadRow(rows[k], max_height)]]

\* Panel lines as the panels emit them: box lines (every escape sequence is
\* complete and closed by a reset) of two widths, and a plain text line.
PanelLines ==
    { create_box_line(<<"A">>, 5, BRIGHT_BLACK),
      create_box_line(<<"ESC", "[", "9", "m", "A", "m", "ESC", "[", "9", "m">>,
                      6, BRIGHT_BLACK),
      <<"A", "m", " ", "m", "9">> }

Panels == SeqsUpTo(PanelLines, MaxPanelH)

\* one call self.layout.combine_rows(*l_args, gap=l_gap)
CombineRows ==
    /\ unit = "layout" /\ l_out = None
    /\ LET r == combine_rows(l_args, l_gap)
       IN  /\ l_out' = Some(r.combined)
           /\ l_rows' = r.rows
    /\ UNCHANGED <<l_args, l_gap, exceptLayout>>

InitLayout ==
    /\ unit = "layout"
    /\ HistoryIdle /\ FitIdle /\ GraphIdle /\ BoxIdle /\ ColorIdle /\ TreeIdle /\ SysHistIdle /\ PanelIdle /\ SizeIdle /\ AppIdle /\ RateIdle /\ UiIdle /\ CpuPanelIdle /\ DualIdle
    /\ l_args \in {<<a>> : a \in Panels}
              \cup {<<a, b>> : a \in Panels, b \in Panels}
              \cup {<<a, b, c>> : a \in Panels, b \in Panels,
                                  c \in SeqsUpTo(PanelLines, 1)}
    /\ l_rows = l_args
    /\ l_gap \in 0..MaxGap
    /\ l_out = None

NextLayout == CombineRows

SpecLayout == InitLayout /\ [][NextLayout]_vars

\* every line of the panel is as wide as its first line
UniformPanel(panel) ==
    panel # <<>> /\ \A i \in 1..Len(panel) : visible_len(panel[i]) = visible_len(panel[1])

RECURSIVE SumWidths(_)
SumWidths(panels) ==
    IF panels = <<>> THEN 0
    ELSE visible_len(panels[1][1]) + SumWidths(Tail(panels))

IsBlank(line) == \A i \in 1..Len(line) : line[i] = " "

\* C8: for two or more non-empty panels of uniform visible width the result
\* has as many lines as the tallest panel, shorter panels are extended with
\* blank lines of their own width, and every result line is as wide as the
\* panel widths plus gap * (panels - 1).
C8_CombineRows ==
    (unit = "layout" /\ l_out # None /\ Len(l_args) >= 2
       /\ \A k \in 1..Len(l_args) : UniformPanel(l_args[k])) =>
        LET out    == Val(l_out)
            n      == Len(l_args)
            tall   == MaxLen(l_args)
        IN  /\ Len(out) = tall
            /\ \E k \in 1..n : Len(l_args[k]) = tall
            /\ \A k \in 1..n :
                  /\ Len(l_rows[k]) = tall
                  /\ \A i \in 1..tall :
                        IF i <= Len(l_args[k]) THEN l_rows[k][i] = l_args[k][i]
                        ELSE /\ IsBlank(l_rows[k][i])
                             /\ Len(l_rows[k][i]) = visible_len(l_args[k][1])
            /\ \A i \in 1..tall :
                  visible_len(out[i]) = SumWidths(l_args) + l_gap * (n - 1)

\* a one-line panel of width 5 next to a three-line panel of width 6, gap 2
C8_Witness ==
    /\ unit = "layout" /\ l_out # None /\ l_gap = 2
    /\ Len(l_args) = 2
    /\ UniformPanel(l_args[1]) /\ UniformPanel(l_args[2])
    /\ Len(l_args[1]) = 1 /\ Len(l_args[2]) = 3
    /\ visible_len(l_args[1][1]) = 5 /\ visible_len(l_args[2][1]) = 6
    /\ Len(l_args[1][1]) > 5


\* =================================================== usage -> colour
\* Percentages are counted in tenths of a percent (499 is 49.9 %).  A theme
\* is a set of <<key, colour>> pairs; colours are the escape strings.
BRIGHT_GREEN  == "ESC[92m"
BRIGHT_YELLOW == "ESC[93m"
BRIGHT_RED    == "ESC[91m"

\* THEMES["default"] and THEMES["dracula"], restricted to the usage keys
DefaultTheme ==
    {<<"low", BRIGHT_GREEN>>, <<"mid", BRIGHT_YELLOW>>, <<"high", BRIGHT_RED>>}
DraculaTheme ==
    {<<"low", "ESC[38;2;80;250;123m">>, <<"mid", "ESC[38;2;255;184;108m">>,
     <<"high", "ESC[38;2;255;85;85m">>}

\* the themes a panel can hold: {} until set_theme is called (cpu_panel.py:30)
Themes == {{}, DefaultTheme, DraculaTheme}

\* theme.get(key, default)
ThemeGet(theme, key, default) ==
    IF \E kv \in theme : kv[1] = key
    THEN (CHOOSE kv \in theme : kv[1] = key)[2]
    ELSE default

\* themes.get_usage_color(theme, percent)
get_usage_color(theme, percent) ==
    IF percent < 500 THEN ThemeGet(theme, "low", BRIGHT_GREEN)
    ELSE IF percent < 800 THEN ThemeGet(theme, "mid", BRIGHT_YELLOW)
    ELSE ThemeGet(theme, "high", BRIGHT_RED)

\* the bar colour with the lower threshold taken inclusively
create_bar_color_Inclusive(percent) ==
    LET clamped == Max(0, Min(1000, percent))
    IN  IF clamped <= 500 THEN BRIGHT_GREEN
        ELSE IF clamped < 800 THEN BRIGHT_YELLOW
        ELSE BRIGHT_RED

\* the colour create_bar(percent) picks when color is None (bar.py:146-157)
create_bar_color(percent) ==
    LET clamped == Max(0, Min(1000, percent))
    IN  IF clamped < 500 THEN BRIGHT_GREEN
        ELSE IF clamped < 800 THEN BRIGHT_YELLOW
        ELSE BRIGHT_RED

\* ProgressBar.set_value(value) followed by ProgressBar.get_color(), with
\* max_value = 100, no custom colour and color_by_value set (bar.py:44-74)
ProgressBar_get_color(value) ==
    LET max_value == 1000
        stored    == Max(0, Min(max_value, value))
        percent   == IF max_value > 0 THEN (stored * 1000) \div max_value ELSE 0
    IN  IF percent < 500 THEN BRIGHT_GREEN
        ELSE IF percent < 800 THEN BRIGHT_YELLOW
        ELSE BRIGHT_RED

\* CPUPanel._get_usage_color(percent)
CPUPanel_get_usage_color(theme, percent) ==
    IF percent < 500 THEN ThemeGet(theme, "low", BRIGHT_GREEN)
    ELSE IF percent < 800 THEN ThemeGet(theme, "mid", BRIGHT_YELLOW)
    ELSE ThemeGet(theme, "high", BRIGHT_RED)

\* ProcessPanel._get_usage_color(percent)
ProcessPanel_get_usage_color(theme, percent) ==
    IF percent < 250 THEN ThemeGet(theme, "low", BRIGHT_GREEN)
    ELSE IF percent < 500 THEN ThemeGet(theme, "mid", BRIGHT_YELLOW)
    ELSE ThemeGet(theme, "high", BRIGHT_RED)

\* one call of each function on the drawn percentage and theme
ThemesGetUsageColor ==
    /\ unit = "color" /\ c_out = None
    /\ c_fn' = "get_usage_color"
    /\ c_out' = Some(get_usage_color(c_theme, c_percent))
    /\ UNCHANGED <<c_percent, c_theme, exceptColor>>

CreateBar ==
    /\ unit = "color" /\ c_out = None
    /\ c_fn' = "create_bar"
    /\ c_out' = Some(create_bar_color(c_percent))
    /\ UNCHANGED <<c_percent, c_theme, exceptColor>>

ProgressBarGetColor ==
    /\ unit = "color" /\ c_out = None
    /\ c_fn' = "ProgressBar.get_color"
    /\ c_out' = Some(ProgressBar_get_color(c_percent))
    /\ UNCHANGED <<c_percent, c_theme, exceptColor>>

CPUPanelGetUsageColor ==
    /\ unit = "color" /\ c_out = None
    /\ c_fn' = "CPUPanel._get_usage_color"
    /\ c_out' = Some(CPUPanel_get_usage_color(c_theme, c_percent))
    /\ UNCHANGED <<c_percent, c_theme, exceptColor>>

ProcessPanelGetUsageColor ==
    /\ unit = "color" /\ c_out = None
    /\ c_fn' = "ProcessPanel._get_usage_color"
    /\ c_out' = Some(ProcessPanel_get_usage_color(c_theme, c_percent))
    /\ UNCHANGED <<c_percent, c_theme, exceptColor>>

InitColor ==
    /\ unit = "color"
    /\ HistoryIdle /\ FitIdle /\ GraphIdle /\ BoxIdle /\ LayoutIdle /\ TreeIdle /\ SysHistIdle /\ PanelIdle /\ SizeIdle /\ AppIdle /\ RateIdle /\ UiIdle /\ CpuPanelIdle /\ DualIdle
    /\ c_percent \in (0 - Overshoot)..(1000 + Overshoot)
    /\ c_theme \in Themes
    /\ c_fn = "" /\ c_out = None

NextColor ==
    \/ ThemesGetUsageColor
    \/ CreateBar
    \/ ProgressBarGetColor
    \/ CPUPanelGetUsageColor
    \/ ProcessPanelGetUsageColor

SpecColor == InitColor /\ [][NextColor]_vars

\* the tier a percentage belongs to under the contract thresholds 50 and 80
Tier(percent) ==
    IF percent < 500 THEN "low" ELSE IF percent < 800 THEN "mid" ELSE "high"

\* the tier whose colour `color` is, for a function reading `theme`
TierOfColor(theme, color) ==
    IF color = ThemeGet(theme, "low", BRIGHT_GREEN) THEN "low"
    ELSE IF color = ThemeGet(theme, "mid", BRIGHT_YELLOW) THEN "mid"
    ELSE IF color = ThemeGet(theme, "high", BRIGHT_RED) THEN "high"
    ELSE "other"

\* the theme a function takes its colours from: the bar widgets use the
\* fixed green / yellow / red
ThemeOf(fn, theme) ==
    IF fn \in {"create_bar", "ProgressBar.get_color"} THEN {} ELSE theme

GeneralMapping ==
    {"get_usage_color", "create_bar", "ProgressBar.get_color",
     "CPUPanel._get_usage_color"}

\* C9: get_usage_color, create_bar, ProgressBar.get_color and
\* CPUPanel._get_usage_color return the low colour below 50, the mid colour
\* from 50 to below 80 and the high colour from 80 on.
C9_UsageColorThresholds ==
    (unit = "color" /\ c_out # None /\ c_fn \in GeneralMapping) =>
        TierOfColor(ThemeOf(c_fn, c_theme), Val(c_out)) = Tier(c_percent)

\* the four boundary values 49.9, 50.0, 79.9 and 80.0 were mapped
C9_Witness ==
    /\ unit = "color" /\ c_out # None /\ c_fn = "get_usage_color"
    /\ c_theme = DraculaTheme
    /\ c_percent \in {499, 500, 799, 800}
    /\ Val(c_out) = ThemeGet(c_theme, Tier(c_percent), "")

\* C10: the process panel chooses, for every percentage, the same colour
\* tier as the CPU panel and the usage bars (thresholds 50 and 80).
C10_ProcessPanelSameTier ==
    (unit = "color" /\ c_out # None /\ c_fn = "ProcessPanel._get_usage_color") =>
        /\ Val(c_out) = CPUPanel_get_usage_color(c_theme, c_percent)
        /\ TierOfColor(c_theme, Val(c_out)) = Tier(c_percent)


\* ====================================================== process/manager.py
\* One call of ProcessManager.get_tree_processes on a snapshot of the
\* processes TreePids.  A process dictionary is represented by its pid;
\* t_ppid and t_cpu hold its "ppid" and "cpu_percent" entries.  The sort
\* keys "memory" and "name" behave like "cpu" and "pid" respectively.

DefaultLimit      == 50     \* get_tree_processes(limit=50)
ProcessFetchLimit == 500    \* get_processes(..., limit=500)

\* list.sort(key=rank) applied to a list that is in ascending pid order
\* (psutil.process_iter yields pids in ascending order); the sort is stable
RECURSIVE StableSorted(_, _)
StableSorted(S, rank) ==
    IF S = {} THEN <<>>
    ELSE LET m == CHOOSE p \in S :
                      \A q \in S : rank[p] < rank[q] \/ (rank[p] = rank[q] /\ p <= q)
         IN  <<m>> \o StableSorted(S \ {m}, rank)

\* get_processes(sort_by, descending=True, limit): "cpu" sorts with
\* reverse=True (highest first), "pid" with reverse=False (lowest first)
get_processes(cpu, sort_by, limit) ==
    LET rank == [p \in DOMAIN cpu |-> IF sort_by = "pid" THEN p ELSE 0 - cpu[p]]
        processes == StableSorted(DOMAIN cpu, rank)
    IN  SubSeq(processes, 1, Min(limit, Len(processes)))

\* build_tree: parent pid -> child pids, in the order of the process list
build_tree(processes, ppid) ==
    [parent \in {ppid[processes[i]] : i \in DOMAIN processes} |->
        SelectSeq(processes, LAMBDA p : ppid[p] = parent)]

\* tree.get(pid, [])
TreeGet(tree, pid) == IF pid \in DOMAIN tree THEN tree[pid] ELSE <<>>

\* add_subtree(pid, depth) and the loop that calls it for a list of pids;
\* st holds the closure variables `result` and `visited`
RECURSIVE add_subtree(_, _, _, _, _, _), add_subtrees(_, _, _, _, _, _)
add_subtree(pid, depth, st, tree, pid_map, limit) ==
    IF pid \in st.visited \/ Len(st.result) >= limit THEN st
    ELSE LET listed ==
                 [visited |-> st.visited \cup {pid},
                  result  |-> IF pid \in pid_map
                              THEN Append(st.result, [pid |-> pid, tree_depth |-> depth])
                              ELSE st.result]
         IN  add_subtrees(TreeGet(tree, pid), depth + 1, listed, tree, pid_map, limit)

add_subtrees(pids, depth, st, tree, pid_map, limit) ==
    IF pids = <<>> THEN st
    ELSE add_subtrees(Tail(pids), depth,
                      add_subtree(Head(pids), depth, st, tree, pid_map, limit),
                      tree, pid_map, limit)

\* root_pids: the processes whose parent is not in the list or is 0
root_pids(processes, ppid) ==
    LET all_pids == {processes[i] : i \in DOMAIN processes}
    IN  {p \in all_pids : ppid[p] \notin all_pids \/ ppid[p] = 0}

\* sorted(root_pids, key=cpu_percent, reverse=True): highest CPU first; the
\* order of roots with equal CPU follows the iteration order of a set,
\* which the language leaves open, so every such order is a possible result
SortedRoots(roots, cpu) ==
    {s \in [1..Cardinality(roots) -> roots] :
        /\ \A i, j \in DOMAIN s : i # j => s[i] # s[j]
        /\ \A i, j \in DOMAIN s : i < j => cpu[s[i]] >= cpu[s[j]]}

get_tree_processes(ppid, cpu, sort_by, limit, sorted_roots) ==
    LET processes == get_processes(cpu, sort_by, ProcessFetchLimit)
        tree      == build_tree(processes, ppid)
        pid_map   == {processes[i] : i \in DOMAIN processes}
        st        == add_subtrees(sorted_roots, 0,
                                  [visited |-> {}, result |-> <<>>],
                                  tree, pid_map, limit)
    IN  SubSeq(st.result, 1, Min(limit, Len(st.result)))

GetTreeProcesses ==
    /\ unit = "tree" /\ t_out = None
    /\ \E sorted_roots \in
           SortedRoots(root_pids(get_processes(t_cpu, t_sort_by, ProcessFetchLimit),
                                 t_ppid), t_cpu) :
           t_out' = Some(get_tree_processes(t_ppid, t_cpu, t_sort_by, t_limit,
                                            sorted_roots))
    /\ UNCHANGED <<t_ppid, t_cpu, t_sort_by, t_limit, exceptTree>>

InitTree ==
    /\ unit = "tree"
    /\ t_ppid \in [TreePids -> {0, AbsentPid} \cup TreePids]
    /\ t_cpu \in [TreePids -> CpuValues]
    /\ t_sort_by \in SortKeys
    /\ t_limit \in {SmallLimit, DefaultLimit}
    /\ t_out = None
    /\ HistoryIdle /\ FitIdle /\ GraphIdle /\ BoxIdle /\ LayoutIdle /\ ColorIdle /\ SysHistIdle /\ PanelIdle /\ SizeIdle /\ AppIdle /\ RateIdle /\ UiIdle /\ CpuPanelIdle /\ DualIdle

NextTree == GetTreeProcesses

SpecTree == InitTree /\ [][NextTree]_vars

\* ---- claim C11
\* a root of the snapshot: its parent is absent from the snapshot or is 0
IsRoot(p) == t_ppid[p] \notin TreePids \/ t_ppid[p] = 0

\* q lies in the subtree below p (following parent links, a root has none)
RECURSIVE DescendsWithin(_, _, _)
DescendsWithin(q, p, steps) ==
    IF steps = 0 \/ IsRoot(q) THEN FALSE
    ELSE t_ppid[q] = p \/ DescendsWithin(t_ppid[q], p, steps - 1)

Descends(q, p) == DescendsWithin(q, p, Cardinality(TreePids))

\* p and q are siblings: both roots, or children of the same listed parent
Siblings(p, q) ==
    \/ IsRoot(p) /\ IsRoot(q)
    \/ ~IsRoot(p) /\ ~IsRoot(q) /\ t_ppid[p] = t_ppid[q]

\* p may precede q under the active sort key
InSortOrder(p, q) ==
    IF t_sort_by = "pid" THEN p < q ELSE t_cpu[p] >= t_cpu[q]

\* C11: the list returned by get_tree_processes is a depth-first order of
\* the snapshot: no pid twice; the entries of depth 0 are the roots (parent
\* absent or 0) and all roots are listed when the limit allows; every other
\* entry comes after its parent, one level deeper; the entries below a
\* process follow it without a gap; and siblings -- the roots among them,
\* as in "1, then 2 and 3, then 4" -- appear in the order of the sort key.
C11_TreeOrder ==
    (unit = "tree" /\ t_out # None) =>
        LET out == Val(t_out)
            I   == DOMAIN out
        IN  /\ \A i, j \in I : i # j => out[i].pid # out[j].pid
            /\ \A i \in I : (out[i].tree_depth = 0) <=> IsRoot(out[i].pid)
            /\ t_limit >= Cardinality(TreePids) =>
                   \A p \in TreePids : IsRoot(p) => \E i \in I : out[i].pid = p
            /\ \A i \in I : ~IsRoot(out[i].pid) =>
                   \E j \in I : /\ j < i
                                /\ out[j].pid = t_ppid[out[i].pid]
                                /\ out[i].tree_depth = out[j].tree_depth + 1
            /\ \A i, j, k \in I :
                   (i < j /\ j < k /\ Descends(out[k].pid, out[i].pid))
                       => Descends(out[j].pid, out[i].pid)
            /\ \A i, j \in I :
                   (i < j /\ Siblings(out[i].pid, out[j].pid))
                       => InSortOrder(out[i].pid, out[j].pid)


\* ---- claim C26
\* C26: with a limit at least as large as the snapshot, get_tree_processes
\* returns every process of the snapshot exactly once, whatever the parent
\* links are (a process that is its own parent and cycles included).
C26_EveryProcessOnce ==
    (unit = "tree" /\ t_out # None /\ t_limit >= Cardinality(TreePids)) =>
        \A p \in TreePids :
            Cardinality({i \in DOMAIN Val(t_out) : Val(t_out)[i].pid = p}) = 1


\* ============================== history.py SystemHistory, app.py collect_data
\* One SystemHistory object.  The unit "cpuhist" calls update_cpu and
\* get_cpu_graph_data directly; the unit "tick" runs the history part of
\* WellzApp.collect_data once per refresh-loop tick.

\* CPU readings handed to update_cpu: total usage and the per-core list
\* (the core count differs between readings)
CpuReadings ==
    {[usage |-> 10, per_core |-> <<10>>],
     [usage |-> 20, per_core |-> <<20, 20>>],
     [usage |-> 30, per_core |-> <<40, 20>>]}

\* get_gpu_info results: every field present (nvidia-smi), no VRAM figures
\* (rocm-smi), nothing available
GpuReadings ==
    {[usage |-> Some(30), vram_used |-> Some(2), vram_total |-> Some(4), temp |-> Some(50)],
     [usage |-> Some(30), vram_used |-> None, vram_total |-> None, temp |-> Some(50)],
     [usage |-> None, vram_used |-> None, vram_total |-> None, temp |-> None]}

ByteCounters == {200, 1000}     \* cumulative byte counters of one snapshot
MemPercent   == 50              \* memory["percent"] of every snapshot
SwapPercent  == 5               \* memory["swap_percent"] of every snapshot

\* the snapshots collect_data can obtain
Snapshots ==
    {[cpu |-> c, gpu |-> g, bytes |-> b] :
        c \in CpuReadings, g \in GpuReadings, b \in ByteCounters}

\* SystemHistory.update_cpu(total, per_core)
update_cpu(total, per_core) ==
    LET recreate == sh_core_count = None \/ Val(sh_core_count) # Len(per_core)
        cores    == IF recreate THEN [i \in 1..Len(per_core) |-> <<>>]
                    ELSE sh_cpu_cores
    IN  /\ sh_cpu_total' = DequeAppend(sh_cpu_total, sh_maxlen, total)
        /\ sh_core_count' = IF recreate THEN Some(Len(per_core)) ELSE sh_core_count
        /\ sh_cpu_cores' =
               [i \in 1..Len(cores) |->
                   IF i <= Len(per_core)
                   THEN DequeAppend(cores[i], sh_maxlen, per_core[i])
                   ELSE cores[i]]
        /\ sh_fed' = Append(sh_fed, total)

\* SystemHistory.update_memory(mem_percent, swap_percent)
update_memory(mem_percent, swap_percent) ==
    /\ sh_memory' = DequeAppend(sh_memory, sh_maxlen, mem_percent)
    /\ sh_swap' = DequeAppend(sh_swap, sh_maxlen, swap_percent)

\* NetworkSpeedBuffer.update(total_bytes) on the buffer object b, with
\* time.time() reading current_time
SpeedBufferUpdate(b, total_bytes, current_time) ==
    [buffer     |-> DequeAppend(b.buffer, sh_maxlen,
                                UpdateSpeed(total_bytes, current_time,
                                            b.last_bytes, b.last_time)),
     last_bytes |-> Some(total_bytes),
     last_time  |-> Some(current_time)]

\* SystemHistory.update_network(bytes_sent, bytes_recv)
update_network(bytes_sent, bytes_recv, current_time) ==
    /\ sh_net_up' = SpeedBufferUpdate(sh_net_up, bytes_sent, current_time)
    /\ sh_net_down' = SpeedBufferUpdate(sh_net_down, bytes_recv, current_time)

\* SystemHistory.update_disk_io(read_bytes, write_bytes) -> DiskIOBuffer.update
update_disk_io(read_bytes, write_bytes, current_time) ==
    /\ sh_disk_read' = SpeedBufferUpdate(sh_disk_read, read_bytes, current_time)
    /\ sh_disk_write' = SpeedBufferUpdate(sh_disk_write, write_bytes, current_time)

\* SystemHistory.update_gpu(usage, memory_percent, temp): a value that is
\* None is not appended
GpuAppend_Placeholder(buf, value) ==
    DequeAppend(buf, sh_maxlen, IF value # None THEN Val(value) ELSE 0)

GpuAppend(buf, value) ==
    IF value # None THEN DequeAppend(buf, sh_maxlen, Val(value)) ELSE buf

update_gpu(usage, memory_percent, temp) ==
    /\ sh_gpu_usage' = GpuAppend(sh_gpu_usage, usage)
    /\ sh_gpu_memory' = GpuAppend(sh_gpu_memory, memory_percent)
    /\ sh_gpu_temp' = GpuAppend(sh_gpu_temp, temp)

\* collect_data: vram_pct = vram_used / vram_total * 100 if vram_total else None
\* (None and 0 are both falsy)
VramPct(gpu) ==
    IF gpu.vram_total # None /\ Val(gpu.vram_total) # 0
    THEN Some((Val(gpu.vram_used) * 100) \div Val(gpu.vram_total))
    ELSE None

\* SystemHistory.get_cpu_graph_data(width)
get_cpu_graph_data(width) == fit_to_width(get_data(sh_cpu_total), width)

\* ---- unit "cpuhist"
UpdateCpu(reading) ==
    /\ unit = "cpuhist" /\ Len(sh_fed) < MaxAppends
    /\ update_cpu(reading.usage, reading.per_core)
    /\ sh_width' = 0 /\ sh_graph' = None      \* an earlier result is stale
    /\ UNCHANGED <<sh_maxlen, sysFlowVars, sysRestVars, exceptSysHist>>

GetCpuGraphData(width) ==
    /\ unit = "cpuhist"
    /\ sh_width' = width
    /\ sh_graph' = Some(get_cpu_graph_data(width))
    /\ UNCHANGED <<sh_maxlen, sysCpuVars, sysFlowVars, sysRestVars, exceptSysHist>>

InitCpuHist ==
    /\ unit = "cpuhist"
    /\ sh_maxlen \in 0..MaxCap
    /\ SystemHistoryNew
    /\ HistoryIdle /\ FitIdle /\ GraphIdle /\ BoxIdle /\ LayoutIdle /\ ColorIdle /\ TreeIdle /\ PanelIdle /\ SizeIdle /\ AppIdle /\ RateIdle /\ UiIdle /\ CpuPanelIdle /\ DualIdle

NextCpuHist ==
    \/ \E reading \in CpuReadings : UpdateCpu(reading)
    \/ \E width \in 0..MaxFitW : GetCpuGraphData(width)

SpecCpuHist == InitCpuHist /\ [][NextCpuHist]_vars

\* ---- claim C12
NonDecreasing(s) == \A i, j \in DOMAIN s : i < j => s[i] <= s[j]

\* C12: get_cpu_graph_data(W) returns exactly W samples: the most recent W
\* CPU totals fed to update_cpu, oldest first, left-padded with zeros when
\* fewer than W were fed; a non-decreasing ramp that fills the history
\* comes back, at half the capacity, as its non-decreasing second half.
\* (Stated for a history of capacity >= 1 and widths up to the capacity.)
C12_CpuGraphData ==
    (unit = "cpuhist" /\ sh_graph # None /\ sh_maxlen >= 1 /\ sh_width <= sh_maxlen) =>
        LET out == Val(sh_graph)
            k   == Len(sh_fed)
            n   == Min(k, sh_width)
        IN  /\ Len(out) = sh_width
            /\ out = Zeros(sh_width - n) \o SubSeq(sh_fed, k - n + 1, k)
            /\ (NonDecreasing(sh_fed) /\ k = sh_maxlen /\ 2 * sh_width = sh_maxlen)
                   => NonDecreasing(out)

\* ---- claim C18
\* C18: a HistoryBuffer is never empty after an append, whatever capacity it
\* was constructed with: capacity 0 is either refused at construction or
\* treated as capacity 1.
C18_NeverEmptyAfterAppend ==
    (unit = "history" /\ appended # <<>>) => buffer # <<>>

\* ---- unit "tick"
\* the history part of WellzApp.collect_data for one snapshot; the clock
\* has advanced by `elapsed` since the previous tick
CollectData(data, elapsed) ==
    /\ unit = "tick" /\ Len(sh_snapshots) < MaxTicks
    /\ sh_clock' = sh_clock + elapsed
    /\ update_cpu(data.cpu.usage, data.cpu.per_core)
    /\ update_memory(MemPercent, SwapPercent)
    /\ update_network(data.bytes, data.bytes, sh_clock')
    /\ update_disk_io(data.bytes, data.bytes, sh_clock')
    /\ update_gpu(data.gpu.usage, VramPct(data.gpu), data.gpu.temp)
    /\ sh_snapshots' = Append(sh_snapshots, data)
    /\ UNCHANGED <<sh_maxlen, sysCallVars, exceptSysHist>>

InitTick ==
    /\ unit = "tick"
    /\ sh_maxlen \in 0..MaxCap
    /\ SystemHistoryNew
    /\ HistoryIdle /\ FitIdle /\ GraphIdle /\ BoxIdle /\ LayoutIdle /\ ColorIdle /\ TreeIdle /\ PanelIdle /\ SizeIdle /\ AppIdle /\ RateIdle /\ UiIdle /\ CpuPanelIdle /\ DualIdle

NextTick == \E data \in Snapshots, elapsed \in {0, 1} : CollectData(data, elapsed)

SpecTick == InitTick /\ [][NextTick]_vars

\* ---- claim C19
\* number of collected snapshots that satisfy Available
CountAvailable(snaps, Available(_)) ==
    Cardinality({i \in DOMAIN snaps : Available(snaps[i])})

UsageAvailable(data) == data.gpu.usage # None
VramAvailable(data)  == VramPct(data.gpu) # None
TempAvailable(data)  == data.gpu.temp # None

\* every collected snapshot reported the same number of cores
CoreCountUnchanged ==
    \A i, j \in DOMAIN sh_snapshots :
        Len(sh_snapshots[i].cpu.per_core) = Len(sh_snapshots[j].cpu.per_core)

\* after k ticks these buffers hold min(k, capacity) samples: CPU total,
\* memory, swap, network up/down, disk read/write, and every per-core
\* buffer when the core count did not change
FedEveryTick ==
    LET k    == Len(sh_snapshots)
        full == Min(k, sh_maxlen)
    IN  /\ Len(sh_cpu_total) = full
        /\ Len(sh_memory) = full /\ Len(sh_swap) = full
        /\ Len(sh_net_up.buffer) = full /\ Len(sh_net_down.buffer) = full
        /\ Len(sh_disk_read.buffer) = full /\ Len(sh_disk_write.buffer) = full
        /\ (k >= 1 /\ CoreCountUnchanged) =>
               /\ Len(sh_cpu_cores) = Len(sh_snapshots[1].cpu.per_core)
               /\ \A i \in DOMAIN sh_cpu_cores : Len(sh_cpu_cores[i]) = full

\* C19 as stated: every tick feeds every buffer exactly once, the three GPU
\* buffers included, whatever the snapshot held (GPU fields unavailable
\* too): after k ticks every buffer holds min(k, capacity) samples.
C19_EveryBufferFedEveryTick ==
    unit = "tick" =>
        LET full == Min(Len(sh_snapshots), sh_maxlen)
        IN  /\ FedEveryTick
            /\ Len(sh_gpu_usage) = full
            /\ Len(sh_gpu_memory) = full
            /\ Len(sh_gpu_temp) = full

\* C19 amended: as above for every buffer but the GPU ones; a GPU buffer is
\* fed only on the ticks whose snapshot has that GPU field available, so it
\* holds min(number of such ticks, capacity) samples.
C19_GpuFedWhenAvailable ==
    unit = "tick" =>
        /\ FedEveryTick
        /\ Len(sh_gpu_usage) = Min(CountAvailable(sh_snapshots, UsageAvailable), sh_maxlen)
        /\ Len(sh_gpu_memory) = Min(CountAvailable(sh_snapshots, VramAvailable), sh_maxlen)
        /\ Len(sh_gpu_temp) = Min(CountAvailable(sh_snapshots, TempAvailable), sh_maxlen)

\* two ticks on a two-core machine, the later one without VRAM figures,
\* into a history of capacity 1: every buffer is full, the oldest sample
\* was evicted, the GPU memory buffer was fed once
C19_Witness ==
    /\ unit = "tick" /\ sh_maxlen = 1 /\ Len(sh_snapshots) = 2
    /\ CoreCountUnchanged /\ Len(sh_cpu_cores) = 2
    /\ VramAvailable(sh_snapshots[1]) /\ ~VramAvailable(sh_snapshots[2])
    /\ UsageAvailable(sh_snapshots[2])
    /\ Len(sh_gpu_memory) = 1 /\ Len(sh_gpu_usage) = 1


\* ================================================== panels/process_panel.py
\* One ProcessPanel and the operations the application performs on it.
\* Text is a sequence of characters.

\* the processes the collector can report, in list order
AllProcs ==
    <<[pid |-> <<"1">>,      username |-> <<"r">>, name |-> <<"a", "b">>],
      [pid |-> <<"2">>,      username |-> <<"u">>, name |-> <<"B">>],
      [pid |-> <<"1", "2">>, username |-> <<"r">>, name |-> <<"c">>],
      [pid |-> <<"2", "1">>, username |-> <<"u">>, name |-> <<"b", "a">>],
      [pid |-> <<"1", "1">>, username |-> <<"u">>, name |-> <<"a">>]>>

\* the process lists the application can hold: the first n processes
ProcessLists == {SubSeq(AllProcs, 1, n) : n \in 0..Min(MaxProcs, Len(AllProcs))}

\* filter strings the user can type ("z" matches no process)
TypedFilters == {<<>>, <<"A">>, <<"b">>, <<"1">>, <<"u">>, <<"z">>}

\* the deltas handle_action passes to move_selection
SelectionDeltas == {-10, -1, 1, 10}

\* the total handle_action passes to select_bottom
BottomTotal == 100

\* str.lower()
LowerChar(c) == IF c = "A" THEN "a" ELSE IF c = "B" THEN "b" ELSE c
Lower(text) == [i \in 1..Len(text) |-> LowerChar(text[i])]

\* `needle in text` for strings
IsSubstring(needle, text) ==
    \E i \in 0..(Len(text) - Len(needle)) :
        SubSeq(text, i + 1, i + Len(needle)) = needle

\* ProcessPanel._filter_processes
filter_processes(search_filter, processes) ==
    IF search_filter = <<>> THEN processes
    ELSE SelectSeq(processes,
                   LAMBDA proc : \/ IsSubstring(search_filter, Lower(proc.name))
                                 \/ IsSubstring(search_filter, Lower(proc.username))
                                 \/ IsSubstring(search_filter, proc.pid))

\* render: "Clamp selection"
ClampSelection_NoLowerBound(selected_index, filtered) ==
    IF filtered # <<>> THEN Min(selected_index, Len(filtered) - 1) ELSE 0

ClampSelection(selected_index, filtered) ==
    IF filtered # <<>>
    THEN Max(0, Min(selected_index, Len(filtered) - 1))
    ELSE 0

\* render: "Adjust scroll offset to keep selection visible"
AdjustScroll_OffByOne(selected_index, scroll_offset, content_height) ==
    IF selected_index < scroll_offset THEN selected_index
    ELSE IF selected_index >= scroll_offset + content_height
         THEN selected_index - content_height
         ELSE scroll_offset

AdjustScroll(selected_index, scroll_offset, content_height) ==
    IF selected_index < scroll_offset THEN selected_index
    ELSE IF selected_index >= scroll_offset + content_height
         THEN selected_index - content_height + 1
         ELSE scroll_offset

\* render: the rows of the filtered list that are emitted, as 0-based
\* indexes: range(visible_start, visible_end)
VisibleRows(scroll_offset, content_height, filtered) ==
    LET visible_start == scroll_offset
        visible_end   == Min(visible_start + content_height, Len(filtered))
    IN  [k \in 1..Max(0, visible_end - visible_start) |-> visible_start + k - 1]

\* an operation other than render: the last frame is out of date
PanelTouched ==
    /\ unit = "panel" /\ p_ops < MaxOps
    /\ p_ops' = p_ops + 1
    /\ p_out' = None

toggle_tree_view ==
    /\ PanelTouched
    /\ p_tree_view' = ~p_tree_view
    /\ UNCHANGED <<p_height, p_processes, p_selected_index, p_scroll_offset,
                   p_search_filter, exceptPanel>>

set_filter(filter_str) ==
    /\ PanelTouched
    /\ p_search_filter' = Lower(filter_str)
    /\ p_selected_index' = 0
    /\ p_scroll_offset' = 0
    /\ UNCHANGED <<p_height, p_processes, p_tree_view, exceptPanel>>

move_selection(delta) ==
    /\ PanelTouched
    /\ p_selected_index' = p_selected_index + delta
    /\ UNCHANGED <<p_height, p_processes, p_scroll_offset, p_search_filter,
                   p_tree_view, exceptPanel>>

select_top ==
    /\ PanelTouched
    /\ p_selected_index' = 0
    /\ p_scroll_offset' = 0
    /\ UNCHANGED <<p_height, p_processes, p_search_filter, p_tree_view, exceptPanel>>

select_bottom(total) ==
    /\ PanelTouched
    /\ p_selected_index' = Max(0, total - 1)
    /\ UNCHANGED <<p_height, p_processes, p_scroll_offset, p_search_filter,
                   p_tree_view, exceptPanel>>

\* WellzApp.run: processes = data["processes"] (a new list from the collector)
NewProcessList(processes) ==
    /\ unit = "panel" /\ processes # p_processes
    /\ p_processes' = processes
    /\ p_out' = None
    /\ UNCHANGED <<p_height, p_selected_index, p_scroll_offset, p_search_filter,
                   p_tree_view, p_ops, exceptPanel>>

\* ProcessPanel.render(processes)
PanelRender ==
    /\ unit = "panel" /\ p_out = None
    /\ LET filtered       == filter_processes(p_search_filter, p_processes)
           selected_index == ClampSelection(p_selected_index, filtered)
           content_height == p_height - 4
           scroll_offset  == AdjustScroll(selected_index, p_scroll_offset,
                                          content_height)
           rows           == VisibleRows(scroll_offset, content_height, filtered)
       IN  /\ p_selected_index' = selected_index
           /\ p_scroll_offset' = scroll_offset
           /\ p_out' = Some([count     |-> Len(filtered),
                             requested |-> p_selected_index,
                             scrolled  |-> p_scroll_offset,
                             rows      |-> rows,
                             marked    |-> SelectSeq(rows, LAMBDA i : i = selected_index)])
    /\ p_ops' = 0
    /\ UNCHANGED <<p_height, p_processes, p_search_filter, p_tree_view, exceptPanel>>

InitPanel ==
    /\ unit = "panel"
    /\ p_height \in 4..MaxProcHeight
    /\ p_processes \in ProcessLists
    /\ ProcessPanelNew
    /\ HistoryIdle /\ FitIdle /\ GraphIdle /\ BoxIdle /\ LayoutIdle /\ ColorIdle /\ TreeIdle /\ SysHistIdle /\ SizeIdle /\ AppIdle /\ RateIdle /\ UiIdle /\ CpuPanelIdle /\ DualIdle

NextPanel ==
    \/ toggle_tree_view
    \/ \E filter_str \in TypedFilters : set_filter(filter_str)
    \/ \E delta \in SelectionDeltas : move_selection(delta)
    \/ select_top
    \/ select_bottom(BottomTotal)
    \/ \E processes \in ProcessLists : NewProcessList(processes)
    \/ PanelRender

SpecPanel == InitPanel /\ [][NextPanel]_vars

\* ---- claim C13
\* C13: right after a render, selected_index lies in [0, filtered_count - 1]
\* when the filtered list is non-empty and is 0 when it is empty, whatever
\* operations and process-list changes came before the render.
C13_SelectionClamped ==
    (unit = "panel" /\ p_out # None) =>
        IF Val(p_out).count > 0
        THEN 0 <= p_selected_index /\ p_selected_index <= Val(p_out).count - 1
        ELSE p_selected_index = 0

\* a render found the selection past the end of a non-empty filtered list,
\* or before its start, and brought it back to the last / first row
C13_Witness ==
    /\ unit = "panel" /\ p_out # None /\ Val(p_out).count >= 2
    /\ p_search_filter # <<>>
    /\ \/ Val(p_out).requested > Val(p_out).count - 1
          /\ p_selected_index = Val(p_out).count - 1
       \/ Val(p_out).requested < 0 /\ p_selected_index = 0

\* ---- claim C14
\* C14: right after a render of a panel of height >= 5 the scroll window
\* holds the selection: 0 <= scroll_offset <= selected_index <
\* scroll_offset + (height - 4); and when the filtered list is non-empty,
\* exactly one emitted row is marked selected, the row selected_index.
C14_SelectionVisible ==
    (unit = "panel" /\ p_out # None /\ p_height >= 5) =>
        /\ 0 <= p_scroll_offset
        /\ p_scroll_offset <= p_selected_index
        /\ p_selected_index < p_scroll_offset + (p_height - 4)
        /\ Val(p_out).count > 0 => Val(p_out).marked = <<p_selected_index>>

\* a render had to scroll down: the selection was below the window and is
\* now its last row, with rows above it scrolled out
C14_Witness ==
    /\ unit = "panel" /\ p_out # None /\ p_height >= 5
    /\ Val(p_out).scrolled + (p_height - 4) <= p_selected_index
    /\ p_scroll_offset > 0
    /\ p_selected_index = p_scroll_offset + (p_height - 4) - 1
    /\ Val(p_out).marked = <<p_selected_index>>


\* ============================================================ ui/layout.py
\* Layout.update_size, get_graph_height and get_process_height.

MIN_WIDTH  == 80
MIN_HEIGHT == 24

PANEL_WIDTH_SMALL  == 38
PANEL_WIDTH_MEDIUM == 42
PANEL_WIDTH_LARGE  == 50

FallbackWidth  == 100     \* term_width when the size cannot be queried
FallbackHeight == 40      \* term_height when the size cannot be queried

\* sizes os.get_terminal_size() can report: 0 (no real terminal) and the
\* values around every boundary of the layout
Near(boundaries) ==
    {0} \cup UNION {{b - d, b + d} : b \in boundaries, d \in 0..Margin}

TerminalSizes ==
    {[columns |-> c, lines |-> l] :
        c \in Near({MIN_WIDTH, 100, 160}), l \in Near({MIN_HEIGHT, 40, 45, 50})}

\* outcomes of the query in update_size: a size, or None when it raised
SizeQueries == {None} \cup {Some(size) : size \in TerminalSizes}

\* update_size: the try / except part
TermWidth(query) ==
    IF query # None THEN Max(MIN_WIDTH, Val(query).columns) ELSE FallbackWidth

TermHeight(query) ==
    IF query # None THEN Max(MIN_HEIGHT, Val(query).lines) ELSE FallbackHeight

\* update_size: "Calculate panel width based on terminal width"
PanelWidthFor_Exclusive(term_width) ==
    IF term_width > 160 THEN PANEL_WIDTH_LARGE
    ELSE IF term_width > 100 THEN PANEL_WIDTH_MEDIUM
    ELSE PANEL_WIDTH_SMALL

PanelWidthFor(term_width) ==
    IF term_width >= 160 THEN PANEL_WIDTH_LARGE
    ELSE IF term_width >= 100 THEN PANEL_WIDTH_MEDIUM
    ELSE PANEL_WIDTH_SMALL

get_panel_width == z_panel_width

get_graph_height ==
    IF z_term_height >= 50 THEN 6
    ELSE IF z_term_height >= 40 THEN 5
    ELSE 4

get_process_height == Max(10, z_term_height - 35)

\* what update_size leaves in the object when the query gave `query`
SizeUpdated(query, size, term_width, term_height, panel_width) ==
    /\ size = query
    /\ term_width = TermWidth(query)
    /\ term_height = TermHeight(query)
    /\ panel_width = PanelWidthFor(TermWidth(query))

UpdateSize(query) ==
    /\ unit = "size"
    /\ SizeUpdated(query, z_size', z_term_width', z_term_height', z_panel_width')
    /\ z_resized' = TRUE
    /\ UNCHANGED exceptSize

\* Layout.__init__ ends with update_size()
InitSize ==
    /\ unit = "size"
    /\ \E query \in SizeQueries :
           SizeUpdated(query, z_size, z_term_width, z_term_height, z_panel_width)
    /\ z_resized = FALSE
    /\ HistoryIdle /\ FitIdle /\ GraphIdle /\ BoxIdle /\ LayoutIdle /\ ColorIdle /\ TreeIdle /\ SysHistIdle /\ PanelIdle /\ AppIdle /\ RateIdle /\ UiIdle /\ CpuPanelIdle /\ DualIdle

NextSize == \E query \in SizeQueries : UpdateSize(query)

SpecSize == InitSize /\ [][NextSize]_vars

\* ---- claim C20
\* the terminal size after clamping to 80 x 24, or 100 x 40 without a size
ClampedColumns ==
    IF z_size = None THEN 100
    ELSE IF Val(z_size).columns < 80 THEN 80 ELSE Val(z_size).columns

ClampedRows ==
    IF z_size = None THEN 40
    ELSE IF Val(z_size).lines < 24 THEN 24 ELSE Val(z_size).lines

\* C20: after update_size the layout depends on the (clamped) terminal size
\* alone: panel width 50 from 160 columns, 42 from 100 to 159, else 38;
\* graph height 6 from 50 rows, 5 from 40 to 49, else 4; process panel
\* height rows - 35 but never below 10.
C20_LayoutTiers ==
    unit = "size" =>
        /\ z_term_width = ClampedColumns /\ z_term_height = ClampedRows
        /\ ClampedColumns >= 160 => get_panel_width = 50
        /\ (100 <= ClampedColumns /\ ClampedColumns < 160) => get_panel_width = 42
        /\ ClampedColumns < 100 => get_panel_width = 38
        /\ ClampedRows >= 50 => get_graph_height = 6
        /\ (40 <= ClampedRows /\ ClampedRows < 50) => get_graph_height = 5
        /\ ClampedRows < 40 => get_graph_height = 4
        /\ get_process_height >= 10
        /\ get_process_height \in {10, ClampedRows - 35}
        /\ get_process_height >= ClampedRows - 35

\* a later update_size saw a terminal exactly on the upper boundaries
\* (160 x 50)
C20_Witness ==
    /\ unit = "size" /\ z_resized /\ z_size = Some([columns |-> 160, lines |-> 50])
    /\ z_panel_width = 50 /\ get_graph_height = 6 /\ get_process_height = 15


\* ================================================= ui/app.py WellzApp.run
\* The refresh loop, its input handling and the SIGWINCH handler.  The
\* Layout of the application is the Layout object of the previous section.
\* a_pc follows run():
\*   "start"   before the cursor is hidden          (app.py:371-377)
\*   "enter"   NonBlockingInput.__enter__           (app.py:380)
\*   "loop"    the test of `while self.running`     (app.py:381)
\*   "collect" the collect_data call                (app.py:383)
\*   "render"  inside self.render                   (app.py:391, 178-260)
\*   "write"   the frame is written and flushed     (app.py:390-392)
\*   "poll"    the timed read_key loop              (app.py:395-398)
\*   "handle"  inside handle_action                 (app.py:400-403)
\*   "input"   SEARCH: blocked in input()           (app.py:303)
\*   "reenter" SEARCH: enter_raw_mode again         (app.py:307)
\*   "exit"    NonBlockingInput.__exit__            (input_handler.py:310)
\*   "finally" the finally block                    (app.py:407-412)
\*   "done"    run() has returned

\* terminal sizes the application sees: two sizes in different layout tiers
AppSizes ==
    {Some([columns |-> 100, lines |-> 40]), Some([columns |-> 160, lines |-> 50])}

\* the actions get_action can return, by what handle_action does with them:
\* QUIT, SEARCH, and "OTHER" for every action that only updates the UI state
Actions == {"QUIT", "SEARCH", "OTHER"}

\* the panels render() composes, in order
RenderOrder == <<"cpu", "memory", "gpu", "network", "disk", "process">>

\* positions of run() inside the try block and inside the with block
InWith == {"loop", "collect", "render", "write", "poll", "handle", "input", "reenter"}
InTry  == {"enter"} \cup InWith

\* handle_action's return value: False if should quit, True otherwise
handle_action_AlwaysTrue(action) == TRUE

handle_action(action) == action # "QUIT"

appTerminal == <<a_tty, a_raw, a_old_settings, a_cursor, a_reset>>
appFrame    == <<a_panels, a_graph_width, a_frame>>
appCounts   == <<a_collects, a_frames>>

RunStart ==
    /\ unit = "app" /\ a_pc = "start"
    /\ a_running' = TRUE
    /\ a_cursor' = "hidden"
    /\ a_pc' = "enter"
    /\ UNCHANGED <<a_tty, a_raw, a_old_settings, a_reset, appCounts, a_action,
                   a_quit, appFrame, sizeVars, exceptApp>>

\* InputHandler.enter_raw_mode
EnterRawMode ==
    /\ unit = "app" /\ a_pc \in {"enter", "reenter"}
    /\ IF a_tty THEN a_old_settings' = TRUE /\ a_raw' = TRUE
       ELSE UNCHANGED <<a_old_settings, a_raw>>
    /\ a_pc' = IF a_pc = "enter" THEN "loop" ELSE "poll"
    /\ a_action' = "NONE"
    /\ UNCHANGED <<a_tty, a_running, a_cursor, a_reset, appCounts, a_quit,
                   appFrame, sizeVars, exceptApp>>

LoopTest ==
    /\ unit = "app" /\ a_pc = "loop"
    /\ a_pc' = IF a_running THEN "collect" ELSE "exit"
    /\ UNCHANGED <<a_running, appTerminal, appCounts, a_action, a_quit, appFrame,
                   sizeVars, exceptApp>>

\* data = self.collect_data(); render() starts: graph_width is read
CollectAndBeginRender ==
    /\ unit = "app" /\ a_pc = "collect" /\ a_collects < MaxCollects
    /\ a_collects' = a_collects + 1
    /\ a_graph_width' = z_panel_width - 4
    /\ a_frame' = <<>>
    /\ a_pc' = "render"
    /\ UNCHANGED <<a_running, appTerminal, a_frames, a_action, a_quit, a_panels,
                   sizeVars, exceptApp>>

\* render(): the next panel of the frame is rendered by its panel object
RenderPanel ==
    /\ unit = "app" /\ a_pc = "render"
    /\ a_frame' = Append(a_frame, [panel       |-> RenderOrder[Len(a_frame) + 1],
                                   config      |-> a_panels,
                                   graph_width |-> a_graph_width])
    /\ a_pc' = IF Len(a_frame') = Len(RenderOrder) THEN "write" ELSE "render"
    /\ UNCHANGED <<a_running, appTerminal, appCounts, a_action, a_quit, a_panels,
                   a_graph_width, sizeVars, exceptApp>>

WriteFrame ==
    /\ unit = "app" /\ a_pc = "write"
    /\ a_frames' = a_frames + 1
    /\ a_reset' = FALSE
    /\ a_pc' = "poll"
    /\ UNCHANGED <<a_running, a_tty, a_raw, a_old_settings, a_cursor, a_collects,
                   a_action, a_quit, a_panels, a_graph_width, a_frame, sizeVars,
                   exceptApp>>

\* the refresh interval has elapsed without a further key
PollTimeout ==
    /\ unit = "app" /\ a_pc = "poll"
    /\ a_pc' = "loop"
    /\ UNCHANGED <<a_running, appTerminal, appCounts, a_action, a_quit, appFrame,
                   sizeVars, exceptApp>>

\* read_key returned a key and get_action mapped it (a key without a
\* binding maps to NONE, which handle_action treats like "OTHER")
PollKey(action) ==
    /\ unit = "app" /\ a_pc = "poll" /\ a_tty
    /\ a_action' = action
    /\ a_pc' = "handle"
    /\ UNCHANGED <<a_running, appTerminal, appCounts, a_quit, appFrame, sizeVars,
                   exceptApp>>

\* handle_action(action, input_handler) and the test of its result
HandleAction ==
    /\ unit = "app" /\ a_pc = "handle"
    /\ IF a_action = "SEARCH"
       THEN \* input_handler.exit_raw_mode(); prompt; query = input()
            /\ a_raw' = (IF a_old_settings THEN FALSE ELSE a_raw)
            /\ a_old_settings' = FALSE
            /\ a_pc' = "input"
            /\ UNCHANGED <<a_running, a_quit, a_action>>
       ELSE /\ a_running' = (IF handle_action(a_action) THEN a_running ELSE FALSE)
            /\ a_quit' = (a_quit \/ a_action = "QUIT")
            /\ a_pc' = IF handle_action(a_action) THEN "poll" ELSE "loop"
            /\ a_action' = "NONE"
            /\ UNCHANGED <<a_raw, a_old_settings>>
    /\ UNCHANGED <<a_tty, a_cursor, a_reset, appCounts, appFrame, sizeVars, exceptApp>>

\* the user ends the line: input() returns (set_filter) or raises (EOF,
\* Ctrl+C), which the bare except swallows; either way SEARCH goes on
InputReturns ==
    /\ unit = "app" /\ a_pc = "input"
    /\ a_pc' = "reenter"
    /\ UNCHANGED <<a_running, appTerminal, appCounts, a_action, a_quit, appFrame,
                   sizeVars, exceptApp>>

\* InputHandler.exit_raw_mode, called by NonBlockingInput.__exit__
ExitRawMode ==
    /\ unit = "app" /\ a_pc = "exit"
    /\ a_raw' = (IF a_old_settings THEN FALSE ELSE a_raw)
    /\ a_old_settings' = FALSE
    /\ a_pc' = "finally"
    /\ UNCHANGED <<a_running, a_tty, a_cursor, a_reset, appCounts, a_action,
                   a_quit, appFrame, sizeVars, exceptApp>>

\* finally: SHOW_CURSOR, RESET and a newline are written
Finally ==
    /\ unit = "app" /\ a_pc = "finally"
    /\ a_cursor' = "shown"
    /\ a_reset' = TRUE
    /\ a_pc' = "done"
    /\ UNCHANGED <<a_running, a_tty, a_raw, a_old_settings, appCounts, a_action,
                   a_quit, appFrame, sizeVars, exceptApp>>

\* a KeyboardInterrupt (SIGINT) is raised inside the try block, outside
\* input(): it leaves the with block, if entered, and reaches `except
\* KeyboardInterrupt` of run
KeyboardInterrupt ==
    /\ unit = "app" /\ a_pc \in InTry \ {"input"} /\ ~a_quit
    /\ a_quit' = TRUE
    /\ a_action' = "NONE"
    /\ a_pc' = IF a_pc \in InWith THEN "exit" ELSE "finally"
    /\ UNCHANGED <<a_running, appTerminal, appCounts, appFrame, sizeVars, exceptApp>>

\* SIGWINCH: the terminal now has size `query`; Python runs _handle_resize
\* between two bytecodes of the main thread, wherever run() is:
\* self.layout.update_size(); self._init_panels()
HandleResize(query) ==
    /\ unit = "app" /\ a_pc # "done" /\ query # z_size
    /\ SizeUpdated(query, z_size', z_term_width', z_term_height', z_panel_width')
    /\ z_resized' = TRUE
    /\ a_panels' = InitPanels(z_term_width', z_term_height', z_panel_width')
    /\ UNCHANGED <<a_pc, a_running, appTerminal, appCounts, a_action, a_quit,
                   a_graph_width, a_frame, exceptApp>>

\* the steps run() takes by itself
AppStep ==
    \/ RunStart \/ EnterRawMode \/ LoopTest \/ CollectAndBeginRender
    \/ RenderPanel \/ WriteFrame \/ PollTimeout \/ HandleAction
    \/ ExitRawMode \/ Finally

\* what the user and the terminal do
AppEnvironment ==
    \/ \E action \in Actions : PollKey(action)
    \/ InputReturns
    \/ KeyboardInterrupt
    \/ \E query \in AppSizes : HandleResize(query)

InitApp ==
    /\ unit = "app"
    /\ \E query \in AppSizes :
           SizeUpdated(query, z_size, z_term_width, z_term_height, z_panel_width)
    /\ z_resized = FALSE
    /\ a_tty \in BOOLEAN
    /\ a_panels = InitPanels(z_term_width, z_term_height, z_panel_width)
    /\ AppNew
    /\ HistoryIdle /\ FitIdle /\ GraphIdle /\ BoxIdle /\ LayoutIdle /\ ColorIdle /\ TreeIdle /\ SysHistIdle /\ PanelIdle /\ RateIdle /\ UiIdle /\ CpuPanelIdle /\ DualIdle

NextApp == AppStep \/ AppEnvironment

SpecApp == InitApp /\ [][NextApp]_vars

\* run() keeps executing: a step it can take by itself is taken
SpecAppFair == SpecApp /\ WF_vars(AppStep)


C16_ResizeBetweenRenders ==
    unit = "app" =>
        \A i, j \in DOMAIN a_frame :
            /\ a_frame[i].config = a_frame[j].config
            /\ a_frame[i].graph_width = a_frame[i].config.width - 4

\* ---- claim C17
\* run() waits for the user and can only go on when the user acts
WaitingForUser == a_pc = "input"

\* C17: handling an action never waits for further user input, so the
\* refresh loop always gets back to its next collect_data call by itself.
C17_HandlingNeverWaits ==
    unit = "app" => ~WaitingForUser


\* ================================================ ui/app.py refresh interval
\* WellzApp.refresh_rate and the REFRESH_UP / REFRESH_DOWN actions.  The
\* interval is counted in tenths of a second.

MinRefreshRate == 5     \* 0.5 s
MaxRefreshRate == 100   \* 10.0 s
RefreshStep    == 5     \* 0.5 s

\* values the configuration file can hold for general.refresh_rate
ConfiguredRates == 0..(MaxRefreshRate + RateMargin)

\* ConfigManager.refresh_rate (the property WellzApp.__init__ reads)
config_refresh_rate(rate) == Max(MinRefreshRate, Min(MaxRefreshRate, rate))

\* WellzApp.adjust_refresh_rate: the new value of self.refresh_rate
adjust_refresh_rate_NoUpperBound(refresh_rate, delta) ==
    Max(MinRefreshRate, refresh_rate + delta)

adjust_refresh_rate(refresh_rate, delta) ==
    Max(MinRefreshRate, Min(MaxRefreshRate, refresh_rate + delta))

AdjustRefreshRate(delta) ==
    /\ unit = "rate" /\ r_count < MaxRateSteps
    /\ r_refresh_rate' = adjust_refresh_rate(r_refresh_rate, delta)
    /\ r_before' = r_refresh_rate
    /\ r_delta' = delta
    /\ r_count' = r_count + 1
    /\ UNCHANGED exceptRate

\* handle_action: REFRESH_UP shortens the interval, REFRESH_DOWN lengthens it
RefreshUp   == AdjustRefreshRate(0 - RefreshStep)
RefreshDown == AdjustRefreshRate(RefreshStep)

InitRate ==
    /\ unit = "rate"
    /\ \E rate \in ConfiguredRates :
           /\ r_refresh_rate = config_refresh_rate(rate)
           /\ r_before = r_refresh_rate
    /\ r_delta = 0 /\ r_count = 0
    /\ HistoryIdle /\ FitIdle /\ GraphIdle /\ BoxIdle /\ LayoutIdle /\ ColorIdle /\ TreeIdle /\ SysHistIdle /\ PanelIdle /\ SizeIdle /\ AppIdle /\ UiIdle /\ CpuPanelIdle /\ DualIdle

NextRate == RefreshUp \/ RefreshDown

SpecRate == InitRate /\ [][NextRate]_vars

\* ---- claim C24
\* C24: the refresh interval is always within [0.5 s, 10.0 s]; a REFRESH_UP
\* or REFRESH_DOWN step moves it by 0.5 s when the result is in the range
\* and otherwise leaves it at the bound the step would have crossed.
C24_RefreshRateInRange ==
    unit = "rate" =>
        /\ MinRefreshRate <= r_refresh_rate /\ r_refresh_rate <= MaxRefreshRate
        /\ r_count > 0 =>
               /\ r_delta \in {RefreshStep, 0 - RefreshStep}
               /\ r_before + r_delta > MaxRefreshRate => r_refresh_rate = MaxRefreshRate
               /\ r_before + r_delta < MinRefreshRate => r_refresh_rate = MinRefreshRate
               /\ (r_before + r_delta >= MinRefreshRate
                   /\ r_before + r_delta <= MaxRefreshRate) =>
                       r_refresh_rate = r_before + r_delta

\* a REFRESH_DOWN from an interval less than one step under 10.0 s stopped
\* at 10.0 s, after an earlier step
C24_Witness ==
    /\ unit = "rate" /\ r_count >= 2
    /\ r_delta = RefreshStep
    /\ r_before < MaxRefreshRate /\ r_before + r_delta > MaxRefreshRate
    /\ r_refresh_rate = MaxRefreshRate


\* ========================================== ui/app.py WellzApp.handle_action
\* The UI state of WellzApp: its ProcessPanel, the help flag, the theme, the
\* process list of the refresh loop, and the three things that change them:
\* handle_action, the SIGWINCH handler and an iteration of the refresh loop.
\* A process is [pid, ppid, cpu_percent, name, username]; pid and ppid are
\* written as their decimal text.

NumThemes             == 8    \* len(THEMES)
ProcessUpdateInterval == 2    \* processes.update_interval
ProcessListLimit      == 30   \* config.max_processes + 10
HelpPanelLines        == 41   \* len(HelpPanel.render()) of a visible panel

\* process lists of the machine, in the order psutil.process_iter yields them
UiSnapshots ==
    {<<[pid |-> <<"1">>, ppid |-> <<"0">>, cpu_percent |-> 10,
        name |-> <<"a">>, username |-> <<"r">>],
       [pid |-> <<"2">>, ppid |-> <<"1">>, cpu_percent |-> 20,
        name |-> <<"b">>, username |-> <<"u">>],
       [pid |-> <<"3">>, ppid |-> <<"1">>, cpu_percent |-> 5,
        name |-> <<"a", "b">>, username |-> <<"u">>]>>,
     <<[pid |-> <<"1">>, ppid |-> <<"0">>, cpu_percent |-> 20,
        name |-> <<"a">>, username |-> <<"r">>],
       [pid |-> <<"2">>, ppid |-> <<"1">>, cpu_percent |-> 10,
        name |-> <<"b">>, username |-> <<"u">>]>>}

\* process panel heights _init_panels computes: max(10, term_height - 35)
ProcessHeights == {10, 15}

\* what input() gives the SEARCH action: a line, or None when it raises
SearchInputs == {None, Some(<<"B">>)}

\* the actions handle_action is given; PAGE_UP, PAGE_DOWN and BOTTOM differ
\* from UP and DOWN only in the delta; the panel toggles (all panels are
\* shown here, as at the start) and the refresh-rate actions change none of
\* the state kept here
UiActions ==
    {"UP", "DOWN", "TOP", "SEARCH", "CANCEL", "TOGGLE_TREE", "TOGGLE_HELP",
     "THEME_NEXT", "THEME_PREV", "RESET_VIEW", "KILL_PROCESS"}

\* collectors.get_process_list(sort_by, limit): a stable sort of the
\* snapshot, highest first for "cpu"; "pid" keeps the ascending pid order
get_process_list(snapshot, sort_by, limit) ==
    LET rank  == [i \in DOMAIN snapshot |->
                     IF sort_by = "pid" THEN i ELSE 0 - snapshot[i].cpu_percent]
        order == StableSorted(DOMAIN snapshot, rank)
        processes == [k \in DOMAIN order |-> snapshot[order[k]]]
    IN  SubSeq(processes, 1, Min(limit, Len(processes)))

\* ProcessPanel.get_selected_pid(processes)
get_selected_pid(panel, processes) ==
    LET filtered == filter_processes(panel.search_filter, processes)
    IN  IF 0 <= panel.selected_index /\ panel.selected_index < Len(filtered)
        THEN Some(filtered[panel.selected_index + 1].pid)
        ELSE None

\* ProcessPanel.set_filter
PanelSetFilter(panel, filter_str) ==
    [panel EXCEPT !.search_filter = Lower(filter_str),
                  !.selected_index = 0, !.scroll_offset = 0]

\* handle_action: what the action does to self.process_panel
PanelAfterAction(action, panel, query, show_help) ==
    CASE action = "UP"   -> [panel EXCEPT !.selected_index = @ - 1]
      [] action = "DOWN" -> [panel EXCEPT !.selected_index = @ + 1]
      [] action = "TOP"  -> [panel EXCEPT !.selected_index = 0, !.scroll_offset = 0]
      [] action = "SEARCH" ->
             IF query = None THEN panel ELSE PanelSetFilter(panel, Val(query))
      [] action = "CANCEL" ->
             IF show_help THEN panel ELSE PanelSetFilter(panel, <<>>)
      [] action = "TOGGLE_TREE" -> [panel EXCEPT !.tree_view = ~@]
      [] action = "RESET_VIEW"  -> PanelSetFilter(panel, <<>>)
      [] OTHER -> panel

\* handle_action: what the action does to self.show_help
ShowHelpAfterAction(action, show_help) ==
    CASE action = "TOGGLE_HELP" -> ~show_help
      [] action \in {"CANCEL", "RESET_VIEW"} -> FALSE
      [] OTHER -> show_help

\* next_theme / prev_theme
ThemeAfterAction(action, theme_index) ==
    CASE action = "THEME_NEXT" -> (theme_index + 1) % NumThemes
      [] action = "THEME_PREV" -> (theme_index - 1) % NumThemes
      [] OTHER -> theme_index

\* handle_action KILL_PROCESS: the os.kill call it makes, if any
KillAfterAction(panel) ==
    LET pid == get_selected_pid(panel, <<>>)
    IN  IF pid # None /\ Val(pid) # <<"0">>
        THEN Some([pid |-> Val(pid), sig |-> "SIGTERM"])
        ELSE None

\* WellzApp.handle_action(action, input_handler)
HandleUiAction(action, query) ==
    /\ unit = "ui" /\ Len(u_events) < MaxKeys
    /\ u_events' = Append(u_events, action)
    /\ LET theme_index == ThemeAfterAction(action, u_theme_index)
           panel == PanelAfterAction(action, u_panel, query, u_show_help)
       IN  /\ u_theme_index' = theme_index
           /\ u_panel' = [panel EXCEPT !.theme = theme_index]
    /\ u_show_help' = ShowHelpAfterAction(action, u_show_help)
    /\ u_kill' = IF action = "KILL_PROCESS" THEN KillAfterAction(u_panel) ELSE u_kill
    /\ UNCHANGED <<u_help_visible, u_counter, u_snapshot, u_processes, u_frame,
                   exceptUi>>

\* WellzApp._handle_resize: the layout is measured again and _init_panels
\* builds every panel anew, the HelpPanel included
UiResize(height) ==
    /\ unit = "ui" /\ Len(u_events) < MaxKeys
    /\ u_events' = Append(u_events, "RESIZE")
    /\ u_panel' = [ProcessPanel(height) EXCEPT !.theme = u_theme_index]
    /\ u_help_visible' = FALSE
    /\ UNCHANGED <<u_show_help, u_theme_index, u_counter,
                   u_snapshot, u_processes, u_kill, u_frame, exceptUi>>

\* HelpPanel.render: the number of lines it returns
help_panel_render(visible) == IF visible THEN HelpPanelLines ELSE 0

\* one iteration of the refresh loop up to the written frame: collect_data
\* (its process part), the update of `processes`, and render
UiTick ==
    /\ unit = "ui"
    /\ LET counter   == u_counter + 1
           fetched   == counter >= ProcessUpdateInterval
           processes == IF fetched
                        THEN get_process_list(u_snapshot, u_panel.sort_by,
                                              ProcessListLimit)
                        ELSE u_processes
           shown     == processes # <<>>
           filtered  == filter_processes(u_panel.search_filter, processes)
           selected_index == ClampSelection(u_panel.selected_index, filtered)
           content_height == u_panel.height - 4
           scroll_offset  == AdjustScroll(selected_index, u_panel.scroll_offset,
                                          content_height)
           rows      == VisibleRows(scroll_offset, content_height, filtered)
       IN  /\ u_counter' = IF fetched THEN 0 ELSE counter
           /\ u_processes' = processes
           /\ u_panel' = IF shown
                         THEN [u_panel EXCEPT !.selected_index = selected_index,
                                              !.scroll_offset = scroll_offset]
                         ELSE u_panel
           /\ u_frame' =
                  Some([process_panel |-> shown,
                        rows     |-> IF shown
                                     THEN [k \in DOMAIN rows |-> filtered[rows[k] + 1]]
                                     ELSE <<>>,
                        tree     |-> u_panel.tree_view,
                        count    |-> IF shown THEN Len(filtered) ELSE 0,
                        selected |-> IF shown THEN selected_index ELSE 0,
                        help_lines |-> IF u_show_help
                                       THEN help_panel_render(u_help_visible)
                                       ELSE 0,
                        shown_help |-> u_show_help])
    /\ u_events' = <<>>
    /\ UNCHANGED <<u_show_help, u_help_visible, u_theme_index,
                   u_snapshot, u_kill, exceptUi>>

InitUi ==
    /\ unit = "ui"
    /\ u_snapshot \in UiSnapshots
    /\ UiNew
    /\ HistoryIdle /\ FitIdle /\ GraphIdle /\ BoxIdle /\ LayoutIdle /\ ColorIdle /\ TreeIdle /\ SysHistIdle /\ PanelIdle /\ SizeIdle /\ AppIdle /\ RateIdle /\ CpuPanelIdle /\ DualIdle

NextUi ==
    \/ \E action \in UiActions, query \in SearchInputs :
           /\ (action # "SEARCH" => query = None)
           /\ HandleUiAction(action, query)
    \/ \E height \in ProcessHeights : UiResize(height)
    \/ UiTick

SpecUi == InitUi /\ [][NextUi]_vars


\* ---- claim C21
\* C21: a KILL_PROCESS action handled while the process list is non-empty
\* and a row of the panel is selected makes an os.kill call with the pid of
\* that row and SIGTERM.
C21_KillSelected ==
    (/\ unit = "ui" /\ u_events # <<>>
     /\ u_events[Len(u_events)] = "KILL_PROCESS"
     /\ u_processes # <<>>
     /\ get_selected_pid(u_panel, u_processes) # None) =>
        u_kill = Some([pid |-> Val(get_selected_pid(u_panel, u_processes)),
                       sig |-> "SIGTERM"])

\* ---- claim C22
\* the transient UI state of a ProcessPanel
Transient(panel) ==
    <<panel.sort_by, panel.sort_descending, panel.search_filter,
      panel.tree_view, panel.selected_index>>

\* C22: a terminal resize and a theme change leave the process panel's sort
\* key, sort direction, filter text, tree-view toggle and selected row as
\* they were.
C22_TransientKept ==
    [][(/\ unit = "ui"
        /\ Len(u_events') = Len(u_events) + 1
        /\ u_events'[Len(u_events')] \in {"RESIZE", "THEME_NEXT", "THEME_PREV"}) =>
           Transient(u_panel') = Transient(u_panel)]_vars

\* ---- claim C23
\* C23: a frame rendered with the tree view on lists every process after
\* its parent when the parent is among the rows; a frame rendered with the
\* tree view off lists the rows in flat sort order (highest CPU first).
C23_TreeViewOrder ==
    (unit = "ui" /\ u_frame # None /\ Val(u_frame).process_panel) =>
        LET rows == Val(u_frame).rows
        IN  IF Val(u_frame).tree
            THEN \A i \in DOMAIN rows :
                     (\E j \in DOMAIN rows : rows[j].pid = rows[i].ppid) =>
                         \E j \in 1..(i - 1) : rows[j].pid = rows[i].ppid
            ELSE \A i, j \in DOMAIN rows :
                     i < j => rows[i].cpu_percent >= rows[j].cpu_percent

\* ---- claim C27
\* C27: a frame rendered while help is on (after a TOGGLE_HELP that turned
\* it on) contains the help panel's lines, and a frame rendered while help
\* is off (after a second TOGGLE_HELP or a CANCEL) contains none of them.
C27_HelpInFrame ==
    (unit = "ui" /\ u_frame # None) =>
        Val(u_frame).help_lines =
            IF Val(u_frame).shown_help THEN HelpPanelLines ELSE 0

\* ---- claim C29
\* UP actions followed by exactly one DOWN action
UpsThenDown(events) ==
    /\ events # <<>>
    /\ events[Len(events)] = "DOWN"
    /\ \A i \in 1..(Len(events) - 1) : events[i] = "UP"

\* C29: when the last frame showed at least two rows with the first one
\* selected, and only UP actions followed by one DOWN action were handled
\* since, the next frame has the second row (index 1) selected.
C29_UpsThenDownSelectsSecond ==
    [][(/\ unit = "ui"
        /\ u_counter' # u_counter
        /\ u_frame # None
        /\ Val(u_frame).count >= 2 /\ Val(u_frame).selected = 0
        /\ UpsThenDown(u_events)
        /\ Val(u_frame').count >= 2) =>
           Val(u_frame').selected = 1]_vars


\* ================================================== ui/panels/cpu_panel.py
\* One frame's CPU panel as WellzApp.render builds it: the history slice of
\* panel_width - 4 samples, then CPUPanel.render.  Strings are sequences of
\* the character classes of box.py; percentages are in tenths of a percent.
HistorySize       == 120    \* config "history_size", SystemHistory's maxlen
GraphHeight       == 5      \* CPUPanel graph_height
MaxCoresDisplay   == 8      \* CPUPanel.max_cores_display
PanelWidthTiers   == {PANEL_WIDTH_SMALL, PANEL_WIDTH_MEDIUM, PANEL_WIDTH_LARGE}
CpuUsages         == {5 * n : n \in 0..200}    \* 0.0, 0.5, ... 100.0
SampleCounts      == {0, HistorySize \div 2, HistorySize}

\* a two-digit colour code such as "\033[92m"
Sgr == <<"ESC", "[", "9", "9", "m">>

Rep(n, c) == [i \in 1..n |-> c]        \* c * n (empty for n <= 0)

\* n samples, every one above zero: 0.1, 0.2, ...
Ramp(n) == [i \in 1..n |-> i]

\* the text of a non-negative integer: one digit character per digit
RECURSIVE NumDigits(_)
NumDigits(n) == IF n < 10 THEN 1 ELSE 1 + NumDigits(n \div 10)

IntText(n) == Rep(NumDigits(n), "9")

\* f"{usage:5.1f}": digits, the point, one decimal, right-aligned in 5 columns
Format5_1f(tenths) ==
    LET text == IntText(tenths \div 10) \o <<" ">> \o <<"9">>
    IN  Spaces(5 - Len(text)) \o text

\* create_bar(percent, width) with the automatic colour (bar.py:127-159)
create_bar(percent, width) ==
    LET p            == Max(0, Min(1000, percent))
        filled_width == (width * p) \div 1000
        empty_width  == width - filled_width
    IN  Sgr \o Rep(filled_width, "blk") \o RESET
            \o BRIGHT_BLACK \o Rep(empty_width, "blk") \o RESET

\* create_box_top(width, title, border_color, title_color), title not empty
create_box_top(width, title, border_color, title_color) ==
    LET inner_width == width - 2
        title_str   == <<" ">> \o title \o <<" ">>
        padding     == Max(0, inner_width - Len(title_str) - 1)
    IN  border_color \o <<"blk", "blk">> \o RESET
            \o title_color \o title_str \o RESET
            \o border_color \o Rep(padding, "blk") \o <<"blk">> \o RESET

\* create_box_separator and create_box_bottom: two corner glyphs around
\* width - 2 horizontal ones
create_box_separator(width, border_color) ==
    border_color \o <<"blk">> \o Rep(width - 2, "blk") \o <<"blk">> \o RESET

create_box_bottom(width, border_color) ==
    border_color \o <<"blk">> \o Rep(width - 2, "blk") \o <<"blk">> \o RESET

\* the string BrailleGraph.render builds from one row of cells
RECURSIVE GraphLineText(_, _)
GraphLineText(cells, i) ==
    IF i > Len(cells) THEN <<>>
    ELSE (IF cells[i].color # "" THEN Sgr \o <<"blk">> \o RESET ELSE <<"blk">>)
             \o GraphLineText(cells, i + 1)

\* cpu_data.get("model"), truncated to width - 4 characters
ModelText(model_len, width) ==
    LET max_model_len == width - 4
    IN  IF model_len > max_model_len
        THEN Rep(max_model_len - 3, "m") \o Rep(3, " ")
        ELSE Rep(model_len, "m")

\* "Cores c  Threads t  Freq fMHz" with its label colours
InfoLine(cores, threads, freq) ==
    Sgr \o Rep(5, "m") \o RESET \o <<" ">> \o IntText(cores) \o Spaces(2)
        \o Sgr \o Rep(7, "m") \o RESET \o <<" ">> \o IntText(threads) \o Spaces(2)
        \o Sgr \o Rep(4, "m") \o RESET \o <<" ">> \o IntText(freq) \o <<"A", "A", "m">>

\* f"{label_color}Total{RESET}  [{bar}] {usage:5.1f}%"
TotalLine(usage, width) ==
    Sgr \o Rep(5, "m") \o RESET \o Spaces(2) \o <<"[">>
        \o create_bar(usage, width - 18)
        \o <<"A", " ">> \o Format5_1f(usage) \o <<" ">>

\* one entry of core_strs: the core number and its mini bar, 5 columns wide
CoreStr(i, usage) ==
    LET bar_len == usage \div 200
    IN  Sgr \o IntText(i) \o RESET
            \o Sgr \o Rep(bar_len, "blk") \o Spaces(5 - bar_len) \o RESET

\* " ".join(core_strs[from : from + 4])
RECURSIVE CoreRow(_, _, _)
CoreRow(per_core, from, to) ==
    IF from > to THEN <<>>
    ELSE CoreStr(from - 1, per_core[from])
             \o (IF from < to THEN <<" ">> ELSE <<>>)
             \o CoreRow(per_core, from + 1, to)

\* the machine the panel describes: an 18-character model name, 8 cores,
\* 16 threads at 3600 MHz, every core as busy as the total
CpuData(usage) ==
    [model_len |-> 18, cores |-> 8, threads |-> 16, freq_current |-> 3600,
     usage |-> usage, per_core |-> Rep(8, usage)]

\* CPUPanel.render(cpu_data, history) of a braille panel (cpu_panel.py:36-118)
cpu_panel_render(width, cpu_data, history) ==
    LET graph_width == width - 4
        graph == BrailleRender(history, graph_width, GraphHeight, 0, 1000,
                               "graph_fill", "")
        graph_lines ==
            IF history = <<>> THEN <<>>
            ELSE [r \in 1..GraphHeight |->
                      create_box_line(GraphLineText(graph.lines[r], 1),
                                      width, BRIGHT_BLACK)]
                     \o <<create_box_separator(width, BRIGHT_BLACK)>>
        per_core == SubSeq(cpu_data.per_core, 1,
                           Min(MaxCoresDisplay, Len(cpu_data.per_core)))
        core_rows ==
            [r \in 1..((Len(per_core) + 3) \div 4) |->
                 create_box_line(CoreRow(per_core, 4 * r - 3,
                                         Min(4 * r, Len(per_core))),
                                 width, BRIGHT_BLACK)]
    IN  <<create_box_top(width, Rep(3, "A"), BRIGHT_BLACK, Sgr),
          create_box_line(Sgr \o ModelText(cpu_data.model_len, width) \o RESET,
                          width, BRIGHT_BLACK),
          create_box_line(InfoLine(cpu_data.cores, cpu_data.threads,
                                   cpu_data.freq_current),
                          width, BRIGHT_BLACK),
          create_box_separator(width, BRIGHT_BLACK)>>
            \o graph_lines
            \o <<create_box_line(TotalLine(cpu_data.usage, width),
                                 width, BRIGHT_BLACK)>>
            \o core_rows
            \o <<create_box_bottom(width, BRIGHT_BLACK)>>

\* the CPU part of WellzApp.render (app.py:186-199): the history slice, the
\* samples the rasteriser draws, and the panel's lines
RenderCpuPanel ==
    /\ unit = "cpupanel" /\ k_out = None
    /\ LET graph_width == k_width - 4
           cpu_history == fit_to_width(get_data(k_buffer), graph_width)
       IN  k_out' = Some([history |-> cpu_history,
                          drawn   |-> FitGraphData(cpu_history, (k_width - 4) * 2),
                          lines   |-> cpu_panel_render(k_width, CpuData(k_usage),
                                                       cpu_history)])
    /\ UNCHANGED <<k_width, k_usage, k_buffer, exceptCpuPanel>>

InitCpuPanel ==
    /\ unit = "cpupanel"
    /\ HistoryIdle /\ FitIdle /\ GraphIdle /\ BoxIdle /\ LayoutIdle /\ ColorIdle /\ TreeIdle /\ SysHistIdle /\ PanelIdle /\ SizeIdle /\ AppIdle /\ RateIdle /\ UiIdle /\ DualIdle
    /\ k_width \in PanelWidthTiers
    /\ k_usage \in CpuUsages
    /\ k_buffer \in {Ramp(n) : n \in SampleCounts}
    /\ k_out = None

NextCpuPanel == RenderCpuPanel

SpecCpuPanel == InitCpuPanel /\ [][NextCpuPanel]_vars

\* C25: for each panel width tier and every usage in [0, 100], every line
\* CPUPanel.render returns is exactly as wide as the panel.
C25_LinesFillPanelWidth ==
    (unit = "cpupanel" /\ k_out # None) =>
        \A i \in 1..Len(Val(k_out).lines) :
            visible_len(Val(k_out).lines[i]) = k_width


\* C28: the history slice handed to the braille graph has one sample per
\* sub-column (two per graph cell), so once the buffer holds that many
\* samples the rasteriser draws the latest recorded ones and no zero padding.
C28_SlicePerSubColumn ==
    (unit = "cpupanel" /\ k_out # None) =>
        LET dots_width == (k_width - 4) * 2
        IN  Len(k_buffer) >= dots_width =>
                /\ Len(Val(k_out).history) = dots_width
                /\ Val(k_out).drawn = LastSlice(k_buffer, dots_width)


\* ============================================ graph.py : render_dual
\* BrailleGraph.render_dual and BrailleGraph.render called on lists the
\* caller keeps (NetworkPanel.render hands over its history arguments).
DualSamples == {0, 8}       \* sample values; the scale is 0..DualMax
DualMax     == 8

\* what `data[:] = ...` leaves in the list object (graph.py:146-151)
render_dual_normalize(data, dots_width) ==
    IF Len(data) > dots_width THEN LastSlice(data, dots_width)
    ELSE IF Len(data) < dots_width THEN Zeros(dots_width - Len(data)) \o data
    ELSE data

\* char_val and colour of the cell at (row, col): the left dot column shows
\* series 1, the right one series 2
BrailleDualCell(fills1, fills2, row, col, dots_width, dots_height, color1, color2) ==
    LET Has(fills, dy, dx) ==
            LET dot_y == row * 4 + dy
                dot_x == col * 2 + dx
            IN  /\ dot_x < dots_width /\ dot_y < dots_height
                /\ BrailleDot(fills[dot_x + 1], dots_height, dot_y)
        Bit(fills, dy, dx) ==
            IF Has(fills, dy, dx) THEN BRAILLE_DOTS[dy + 1][dx + 1] ELSE 0
        has_series1 == \E dy \in 0..3 : Has(fills1, dy, 0)
        has_series2 == \E dy \in 0..3 : Has(fills2, dy, 1)
    IN  [ch |-> BRAILLE_BASE
                  + Bit(fills1, 0, 0) + Bit(fills1, 1, 0)
                  + Bit(fills1, 2, 0) + Bit(fills1, 3, 0)
                  + Bit(fills2, 0, 1) + Bit(fills2, 1, 1)
                  + Bit(fills2, 2, 1) + Bit(fills2, 3, 1),
         color |-> IF has_series1 THEN color1
                   ELSE IF has_series2 THEN color2 ELSE ""]

\* BrailleGraph.render_dual: the lists after the call and the lines
BrailleRenderDual(data1, data2, width, height, min_val, max_val, color1, color2) ==
    LET dots_width  == width * 2
        dots_height == height * 4
        n1 == render_dual_normalize(data1, dots_width)
        n2 == render_dual_normalize(data2, dots_width)
        fills1 == [x \in 1..Len(n1) |-> FillLevel(n1[x], min_val, max_val, dots_height)]
        fills2 == [x \in 1..Len(n2) |-> FillLevel(n2[x], min_val, max_val, dots_height)]
    IN  [data1 |-> n1, data2 |-> n2,
         lines |-> [row \in 1..height |-> [col \in 1..width |->
                      BrailleDualCell(fills1, fills2, row - 1, col - 1,
                                      dots_width, dots_height, color1, color2)]]]

\* renderer.render_dual(d_data1, d_data2, d_width, d_height, ...)
RenderDual ==
    /\ unit = "dual" /\ d_out = None
    /\ LET r == BrailleRenderDual(d_data1, d_data2, d_width, d_height,
                                  0, DualMax, "low", "accent")
       IN  /\ d_data1' = r.data1
           /\ d_data2' = r.data2
           /\ d_out' = Some(r.lines)
    /\ d_call' = "render_dual"
    /\ UNCHANGED <<d_args, d_width, d_height, exceptDual>>

\* renderer.render(d_data1, d_width, d_height, ...): `data` is rebound
\* inside the call, the caller's list is not written
RenderSingle ==
    /\ unit = "dual" /\ d_out = None
    /\ d_out' = Some(BrailleRender(d_data1, d_width, d_height, 0, DualMax,
                                   "low", "").lines)
    /\ d_call' = "render"
    /\ UNCHANGED <<d_data1, d_data2, d_args, d_width, d_height, exceptDual>>

InitDual ==
    /\ unit = "dual"
    /\ HistoryIdle /\ FitIdle /\ GraphIdle /\ BoxIdle /\ LayoutIdle /\ ColorIdle /\ TreeIdle /\ SysHistIdle /\ PanelIdle /\ SizeIdle /\ AppIdle /\ RateIdle /\ UiIdle /\ CpuPanelIdle
    /\ d_data1 \in SeqsUpTo(DualSamples, MaxGraphLen)
    /\ d_data2 \in SeqsUpTo(DualSamples, MaxGraphLen)
    /\ d_args = <<d_data1, d_data2>>
    /\ d_width \in 1..MaxGraphW
    /\ d_height \in 1..MaxGraphH
    /\ d_call = "" /\ d_out = None

NextDual == RenderDual \/ RenderSingle

SpecDual == InitDual /\ [][NextDual]_vars

\* C30: a render call leaves the caller's sample lists as they were handed
\* in, after render_dual as after the single-series render, whatever the
\* lists' lengths are relative to the number of sub-columns.
C30_InputsUnchanged ==
    (unit = "dual" /\ d_out # None) =>
        /\ d_data1 = d_args[1]
        /\ d_data2 = d_args[2]


\* ======================================================= whole model
Init ==
    \/ InitHistory \/ InitFit \/ InitGraph \/ InitBox \/ InitLayout \/ InitColor
    \/ InitTree \/ InitCpuHist \/ InitTick \/ InitPanel
    \/ InitSize \/ InitApp \/ InitRate \/ InitUi \/ InitCpuPanel
    \/ InitDual

Next ==
    \/ NextHistory \/ NextFit \/ NextGraph \/ NextBox \/ NextLayout \/ NextColor
    \/ NextTree \/ NextCpuHist \/ NextTick \/ NextPanel
    \/ NextSize \/ NextApp \/ NextRate \/ NextUi \/ NextCpuPanel
    \/ NextDual

Spec == Init /\ [][Next]_vars

====
